---------------------------- MODULE Spec2Model ----------------------------
(***************************************************************************)
(* Model of the Dynamics CRM SQL query extension: the SQL parser           *)
(* (src/src/sql-parser.ts), the query tool's request builder               *)
(* (QueryToolController, src/unnamed/part_001) and the bulk UPDATE/DELETE  *)
(* of DynamicsApi (src/unnamed/part_002).                                  *)
(*                                                                         *)
(* JavaScript strings are TLA+ strings; the character at index i of s is   *)
(* SubSeq(s, i, i).  Regular expressions are modelled by what the          *)
(* backtracking matcher does: leftmost match, greedy and lazy quantifiers  *)
(* tried in their priority order.                                          *)
(***************************************************************************)
EXTENDS Integers, Sequences, FiniteSets, TLC

VARIABLES
    \* SqlParser.translateWhereClause called on its own
    whereClause,  \* the argument
    clause,       \* how whereClause was built (conditions, connectives, spacing)
    filter,       \* the returned OData filter
    wpc,          \* "input" before the call, "translated" after it
    \* SqlParser.parse called on its own
    parseInput,   \* the argument
    result,       \* what parse returned or threw
    ppc,          \* "input" before the call, "parsed" after it
    \* QueryToolController
    sqlQueryTextarea,  \* sqlQueryTextarea.value
    orgStorage,   \* chrome.storage.local: orgUrl ("" when not stored)
    pc,           \* where executeQuery stands: "idle", "awaitOrgUrl", "awaitFetch"
    parsedQuery,  \* the ParsedQuery of the running executeQuery
    request,      \* the arguments of the fetch the running executeQuery made
    status,       \* statusMessage: textContent and className
    disabled,     \* executeButton.disabled
    \* DynamicsApi
    clientUrl,    \* this.clientUrl (None until initialize)
    apiQuery,     \* the ParsedQuery given to DynamicsApi.executeQuery
    apc,          \* where executeQuery stands: "idle", "retrieving", "creating",
                  \* "mutating", "done"
    records,      \* recordsToUpdate / recordsToDelete: the retrieved records
    promises,     \* updatePromises / deletePromises: "pending", "fulfilled",
                  \* "rejected" for each record
    fetched,      \* the requests made with fetch, in the order of the calls
    apiResult,    \* the promise executeQuery returned
    \* the result table of the QueryToolController
    currentResult,  \* this.currentResult (None for null)
    currentPage,    \* this.currentPage
    sortColumn,     \* this.sortColumn
    sortAscending,  \* this.sortAscending
    \* the handoff of a query from the popup to the query-tool pages
    pendingQuery,   \* chrome.storage.local: pendingQuery (None when not stored)
    popup,          \* the PopupController: its text, status and button, the
                    \* ParsedQuery of executeQuickQuery and where it stands
                    \* ("idle", "storing", "stored", "opened")
    pages,          \* for each query-tool page: where checkPendingQuery stands,
                    \* what its get read, its textarea
    executions,     \* the executeQuery calls the pages made for a pending
                    \* query, in order
    \* calls of the sqlParser singleton and of the request builder
    calls           \* the texts given so far, each with what was returned

whereVars == <<whereClause, clause, filter, wpc>>

parseVars == <<parseInput, result, ppc>>

toolVars == <<sqlQueryTextarea, orgStorage, pc, parsedQuery, request, status, disabled>>

apiVars == <<clientUrl, apiQuery, apc, records, promises, fetched, apiResult>>

pageVars == <<currentResult, currentPage, sortColumn, sortAscending>>

handoffVars == <<pendingQuery, popup, pages, executions>>

otherVars == <<handoffVars, calls>>

vars == <<whereVars, parseVars, toolVars, apiVars, pageVars, otherVars>>

-----------------------------------------------------------------------------
(* Characters and strings                                                  *)

\* s.charAt(i - 1): the character at index i, "" outside the string
Ch(s, i) == IF 1 <= i /\ i <= Len(s) THEN SubSeq(s, i, i) ELSE ""

\* JavaScript's \s, as far as the inputs of this model go
IsSpace(c) == c \in {" ", "\t", "\n", "\r"}

UpperOf ==
    ("a" :> "A") @@ ("b" :> "B") @@ ("c" :> "C") @@ ("d" :> "D") @@ ("e" :> "E") @@
    ("f" :> "F") @@ ("g" :> "G") @@ ("h" :> "H") @@ ("i" :> "I") @@ ("j" :> "J") @@
    ("k" :> "K") @@ ("l" :> "L") @@ ("m" :> "M") @@ ("n" :> "N") @@ ("o" :> "O") @@
    ("p" :> "P") @@ ("q" :> "Q") @@ ("r" :> "R") @@ ("s" :> "S") @@ ("t" :> "T") @@
    ("u" :> "U") @@ ("v" :> "V") @@ ("w" :> "W") @@ ("x" :> "X") @@ ("y" :> "Y") @@
    ("z" :> "Z")

LowerLetters == DOMAIN UpperOf

UpperLetters == {UpperOf[c] : c \in LowerLetters}

Digits == {"0", "1", "2", "3", "4", "5", "6", "7", "8", "9"}

\* JavaScript's \w
IsWordChar(c) == c \in LowerLetters \cup UpperLetters \cup Digits \cup {"_"}

RECURSIVE toUpperCase(_)
toUpperCase(s) ==
    IF s = "" THEN ""
    ELSE LET c == Head(s)
         IN  (IF c \in LowerLetters THEN UpperOf[c] ELSE c) \o toUpperCase(Tail(s))

LowerOf == [c \in UpperLetters |-> CHOOSE l \in LowerLetters : UpperOf[l] = c]

RECURSIVE toLowerCase(_)
toLowerCase(s) ==
    IF s = "" THEN ""
    ELSE LET c == Head(s)
         IN  (IF c \in UpperLetters THEN LowerOf[c] ELSE c) \o toLowerCase(Tail(s))

\* the literal lit stands in s at index j (under the regex flag i when ci)
MatchLit(s, j, lit, ci) ==
    /\ j >= 1
    /\ j + Len(lit) - 1 <= Len(s)
    /\ LET sub == SubSeq(s, j, j + Len(lit) - 1)
       IN  sub = lit \/ (ci /\ toUpperCase(sub) = toUpperCase(lit))

\* the index after the run of whitespace that starts at i (i itself when none)
RECURSIVE SkipSpace(_, _)
SkipSpace(s, i) ==
    IF IsSpace(Ch(s, i)) THEN SkipSpace(s, i + 1) ELSE i

\* the index after the run of \w that starts at i
RECURSIVE SkipWord(_, _)
SkipWord(s, i) ==
    IF IsWordChar(Ch(s, i)) THEN SkipWord(s, i + 1) ELSE i

\* the index after the run of \d that starts at i
RECURSIVE SkipDigits(_, _)
SkipDigits(s, i) ==
    IF Ch(s, i) \in Digits THEN SkipDigits(s, i + 1) ELSE i

\* the index of the first line terminator at or after i (Len(s) + 1 when none):
\* the dot of a regular expression matches no line terminator
RECURSIVE DotEnd(_, _)
DotEnd(s, i) ==
    IF i > Len(s) \/ Ch(s, i) \in {"\n", "\r"} THEN i ELSE DotEnd(s, i + 1)

Max(S) == CHOOSE x \in S : \A y \in S : y <= x

Min(S) == CHOOSE x \in S : \A y \in S : x <= y

\* String.prototype.trim
RECURSIVE TrimEndIndex(_, _)
TrimEndIndex(s, i) ==
    IF i >= 1 /\ IsSpace(Ch(s, i)) THEN TrimEndIndex(s, i - 1) ELSE i

trim(s) ==
    LET a == SkipSpace(s, 1)
        b == TrimEndIndex(s, Len(s))
    IN  IF a > b THEN "" ELSE SubSeq(s, a, b)

startsWith(s, p) == Len(p) <= Len(s) /\ SubSeq(s, 1, Len(p)) = p

endsWith(s, p) == Len(p) <= Len(s) /\ SubSeq(s, Len(s) - Len(p) + 1, Len(s)) = p

\* s.split(sep) for a one-character separator, from index i on
RECURSIVE SplitFrom(_, _, _, _)
SplitFrom(s, sep, i, start) ==
    IF i > Len(s) THEN <<SubSeq(s, start, Len(s))>>
    ELSE IF Ch(s, i) = sep
    THEN <<SubSeq(s, start, i - 1)>> \o SplitFrom(s, sep, i + 1, i + 1)
    ELSE SplitFrom(s, sep, i + 1, start)

split(s, sep) == SplitFrom(s, sep, 1, 1)

\* s.split(/\s+/) from index i on
RECURSIVE SplitSpaceFrom(_, _, _)
SplitSpaceFrom(s, i, start) ==
    IF i > Len(s) THEN <<SubSeq(s, start, Len(s))>>
    ELSE IF IsSpace(Ch(s, i))
    THEN LET j == SkipSpace(s, i)
         IN  <<SubSeq(s, start, i - 1)>> \o SplitSpaceFrom(s, j, j)
    ELSE SplitSpaceFrom(s, i + 1, start)

splitSpace(s) == SplitSpaceFrom(s, 1, 1)

\* array.join(sep)
RECURSIVE join(_, _)
join(a, sep) ==
    IF a = <<>> THEN ""
    ELSE IF Len(a) = 1 THEN a[1]
    ELSE a[1] \o sep \o join(Tail(a), sep)

\* s.replace(/[{}]/g, '')
RECURSIVE StripBraces(_)
StripBraces(s) ==
    IF s = "" THEN ""
    ELSE (IF Head(s) \in {"{", "}"} THEN "" ELSE Head(s)) \o StripBraces(Tail(s))

DigitValue ==
    ("0" :> 0) @@ ("1" :> 1) @@ ("2" :> 2) @@ ("3" :> 3) @@ ("4" :> 4) @@
    ("5" :> 5) @@ ("6" :> 6) @@ ("7" :> 7) @@ ("8" :> 8) @@ ("9" :> 9)

\* parseInt(s, 10) for a string of decimal digits
RECURSIVE ParseDigits(_, _)
ParseDigits(s, acc) ==
    IF s = "" THEN acc ELSE ParseDigits(Tail(s), 10 * acc + DigitValue[Head(s)])

parseInt(s) == ParseDigits(s, 0)

-----------------------------------------------------------------------------
(* SqlParser.translateWhereClause                                          *)

\* s.substring(i).replace(/\s{lead,}lit\s{trail,}/g, repl), with the flag i
\* when ci.  Every literal of translateWhereClause starts and ends with a
\* non-space character, so the greedy runs of \s have one length to try.
RECURSIVE ReplaceFrom(_, _, _, _, _, _, _)
ReplaceFrom(s, i, lit, ci, lead, trail, repl) ==
    IF i > Len(s) THEN ""
    ELSE IF lead > 0 /\ ~IsSpace(Ch(s, i))
    THEN Ch(s, i) \o ReplaceFrom(s, i + 1, lit, ci, lead, trail, repl)
    ELSE LET j == SkipSpace(s, i)
         IN  IF j - i >= lead /\ MatchLit(s, j, lit, ci)
             THEN LET k == SkipSpace(s, j + Len(lit))
                  IN  IF k - (j + Len(lit)) >= trail
                      THEN repl \o ReplaceFrom(s, k, lit, ci, lead, trail, repl)
                      ELSE Ch(s, i) \o ReplaceFrom(s, i + 1, lit, ci, lead, trail, repl)
             ELSE Ch(s, i) \o ReplaceFrom(s, i + 1, lit, ci, lead, trail, repl)

\* /\s+KEYWORD\s+/gi
ReplaceKeyword(s, kw, repl) == ReplaceFrom(s, 1, kw, TRUE, 1, 1, repl)

\* /\s*op\s*/g
ReplaceOperator(s, op, repl) == ReplaceFrom(s, 1, op, FALSE, 0, 0, repl)

\* /\s+IS NULL\s*/gi and /\s+IS NOT NULL\s*/gi
ReplaceNullTest(s, kw, repl) == ReplaceFrom(s, 1, kw, TRUE, 1, 0, repl)

translateWhereClause(w) ==
    LET s1  == ReplaceKeyword(w, "AND", " and ")
        s2  == ReplaceKeyword(s1, "OR", " or ")
        s3  == ReplaceOperator(s2, "=", " eq ")
        s4  == ReplaceOperator(s3, "<>", " ne ")
        s5  == ReplaceOperator(s4, ">", " gt ")
        s6  == ReplaceOperator(s5, "<", " lt ")
        s7  == ReplaceOperator(s6, ">=", " ge ")
        s8  == ReplaceOperator(s7, "<=", " le ")
        s9  == ReplaceKeyword(s8, "LIKE", " contains ")
        s10 == ReplaceNullTest(s9, "IS NULL", " eq null")
        s11 == ReplaceNullTest(s10, "IS NOT NULL", " ne null")
    IN  s11

-----------------------------------------------------------------------------
(* The statement patterns of SqlParser, matched as String.prototype.match  *)
(* does: the leftmost start, a greedy quantifier longest first, a lazy one *)
(* shortest first, an optional group tried before it is skipped.           *)
(*                                                                         *)
(* A match is a record of the capture groups; a group that did not take    *)
(* part (undefined) is None.                                               *)

None == <<>>

Some(x) == <<x>>

NoMatch ==
    [ok |-> FALSE, entity |-> "", fieldsStr |-> "", columnsStr |-> "",
     valuesStr |-> "", setClause |-> "", where |-> None, orderBy |-> None,
     limit |-> None]

Matched == [NoMatch EXCEPT !.ok = TRUE]

\* \s+ ending at an index of lo..hi (the longest run first), then a lazy
\* (.*?) that ends at the first index of `good`: <<start, end>> of the
\* capture, or <<>> when no choice lets the rest of the pattern match
LazyCapture(s, lo, hi, good) ==
    LET Ends(p) == {q \in good : p <= q /\ q <= DotEnd(s, p)}
        Starts == {p \in lo..hi : Ends(p) # {}}
    IN  IF Starts = {} THEN <<>>
        ELSE LET p == Max(Starts) IN <<p, Min(Ends(p))>>

\* the text of a capture, and the index at which the pattern goes on
Captured(s, cap) == IF cap = <<>> THEN None ELSE Some(SubSeq(s, cap[1], cap[2] - 1))

After(cap, i) == IF cap = <<>> THEN i ELSE cap[2]

FirstOf(S) == IF S = {} THEN 0 ELSE Min(S)

LastOf(S) == IF S = {} THEN 0 ELSE Max(S)

\* (?:\s+LIMIT\s+(\d+))?;
LimitTail(s, i) ==
    LET j == SkipSpace(s, i)
        k == SkipSpace(s, j + 5)
        m == SkipDigits(s, k)
    IN  IF /\ j > i
           /\ MatchLit(s, j, "LIMIT", TRUE)
           /\ k > j + 5
           /\ m > k
           /\ Ch(s, m) = ";"
        THEN [Matched EXCEPT !.limit = Some(SubSeq(s, k, m - 1))]
        ELSE IF Ch(s, i) = ";" THEN Matched
        ELSE NoMatch

\* the capture of (?:\s+ORDER\s+BY\s+(.*?))? before (?:\s+LIMIT\s+(\d+))?;
OrderCapture(s, i) ==
    LET j == SkipSpace(s, i)
        k == SkipSpace(s, j + 5)
        m == SkipSpace(s, k + 2)
    IN  IF /\ j > i
           /\ MatchLit(s, j, "ORDER", TRUE)
           /\ k > j + 5
           /\ MatchLit(s, k, "BY", TRUE)
           /\ m > k + 2
        THEN LazyCapture(s, k + 3, m,
                         {q \in (k + 3)..(Len(s) + 1) : LimitTail(s, q).ok})
        ELSE <<>>

OrderTailAt(s, i, cap) ==
    [LimitTail(s, After(cap, i)) EXCEPT !.orderBy = Captured(s, cap)]

\* (?:\s+ORDER\s+BY\s+(.*?))?(?:\s+LIMIT\s+(\d+))?;
OrderTail(s, i) == OrderTailAt(s, i, OrderCapture(s, i))

\* the capture of (?:\s+WHERE\s+(.*?))? before the ORDER BY and LIMIT groups
SelectWhereCapture(s, i) ==
    LET j == SkipSpace(s, i)
        m == SkipSpace(s, j + 5)
    IN  IF j > i /\ MatchLit(s, j, "WHERE", TRUE) /\ m > j + 5
        THEN LazyCapture(s, j + 6, m,
                         {q \in (j + 6)..(Len(s) + 1) : OrderTail(s, q).ok})
        ELSE <<>>

SelectWhereTailAt(s, i, cap) ==
    [OrderTail(s, After(cap, i)) EXCEPT !.where = Captured(s, cap)]

\* (?:\s+WHERE\s+(.*?))?(?:\s+ORDER\s+BY\s+(.*?))?(?:\s+LIMIT\s+(\d+))?;
SelectWhereTail(s, i) == SelectWhereTailAt(s, i, SelectWhereCapture(s, i))

\* \s+FROM\s+(\w+) at i: <<start, end>> of the entity, the longest run of \w
\* after which the rest of the SELECT pattern matches
FromCapture(s, i) ==
    LET r == SkipSpace(s, i)
        a == SkipSpace(s, r + 4)
        b == SkipWord(s, a)
        e == IF r > i /\ MatchLit(s, r, "FROM", TRUE) /\ a > r + 4
             THEN LastOf({x \in (a + 1)..b : SelectWhereTail(s, x).ok})
             ELSE 0
    IN  IF e = 0 THEN <<>> ELSE <<a, e>>

FromTailAt(s, cap) ==
    IF cap = <<>> THEN NoMatch
    ELSE [SelectWhereTail(s, cap[2]) EXCEPT !.entity = SubSeq(s, cap[1], cap[2] - 1)]

\* \s+FROM\s+(\w+) and the rest of the SELECT pattern
FromTail(s, i) == FromTailAt(s, FromCapture(s, i))

\* SELECT\s+(.*?) at st: the capture of the field list
FieldsCapture(s, st) ==
    LET m == SkipSpace(s, st + 6)
    IN  IF MatchLit(s, st, "SELECT", TRUE) /\ m > st + 6
        THEN LazyCapture(s, st + 7, m, {q \in (st + 7)..Len(s) : FromTail(s, q).ok})
        ELSE <<>>

SelectMatchWith(s, cap) ==
    IF cap = <<>> THEN NoMatch
    ELSE [FromTail(s, cap[2]) EXCEPT !.fieldsStr = SubSeq(s, cap[1], cap[2] - 1)]

\* /SELECT\s+(.*?)\s+FROM\s+(\w+)(?:\s+WHERE\s+(.*?))?(?:\s+ORDER\s+BY\s+(.*?))?
\*  (?:\s+LIMIT\s+(\d+))?;/i tried at the start index st
SelectMatchAt(s, st) == SelectMatchWith(s, FieldsCapture(s, st))

\* the start indexes at which the statement's keyword stands
KeywordStarts(s, kw) == {st \in 1..Len(s) : MatchLit(s, st, kw, TRUE)}

\* sql.match(pattern) of parseSelect: the match at the leftmost start
SelectMatch(s) ==
    SelectMatchAt(s, FirstOf({st \in KeywordStarts(s, "SELECT") :
                                 SelectMatchAt(s, st).ok}))

\* (?:\s+WHERE\s+(.*?))?;  the end of the UPDATE and DELETE patterns
WhereCapture(s, i) ==
    LET j == SkipSpace(s, i)
        m == SkipSpace(s, j + 5)
    IN  IF j > i /\ MatchLit(s, j, "WHERE", TRUE) /\ m > j + 5
        THEN LazyCapture(s, j + 6, m, {q \in (j + 6)..Len(s) : Ch(s, q) = ";"})
        ELSE <<>>

WhereTailAt(s, i, cap) ==
    IF cap # <<>> THEN [Matched EXCEPT !.where = Captured(s, cap)]
    ELSE IF Ch(s, i) = ";" THEN Matched
    ELSE NoMatch

WhereTail(s, i) == WhereTailAt(s, i, WhereCapture(s, i))

\* UPDATE\s+(\w+)\s+SET\s+(.*?) at st: <<start, end>> of the entity and of
\* the SET clause, or <<>>
UpdateCapture(s, st) ==
    LET a == SkipSpace(s, st + 6)
        b == SkipWord(s, a)
        c == SkipSpace(s, b)
        m == SkipSpace(s, c + 3)
    IN  IF /\ MatchLit(s, st, "UPDATE", TRUE)
           /\ a > st + 6
           /\ b > a
           /\ c > b
           /\ MatchLit(s, c, "SET", TRUE)
           /\ m > c + 3
        THEN <<<<a, b>>,
               LazyCapture(s, c + 4, m, {q \in (c + 4)..Len(s) : WhereTail(s, q).ok})>>
        ELSE <<>>

UpdateMatchWith(s, cap) ==
    IF cap = <<>> \/ cap[2] = <<>> THEN NoMatch
    ELSE [WhereTail(s, cap[2][2]) EXCEPT
              !.entity = SubSeq(s, cap[1][1], cap[1][2] - 1),
              !.setClause = SubSeq(s, cap[2][1], cap[2][2] - 1)]

\* /UPDATE\s+(\w+)\s+SET\s+(.*?)(?:\s+WHERE\s+(.*?))?;/i tried at st
UpdateMatchAt(s, st) == UpdateMatchWith(s, UpdateCapture(s, st))

UpdateMatch(s) ==
    UpdateMatchAt(s, FirstOf({st \in KeywordStarts(s, "UPDATE") :
                                 UpdateMatchAt(s, st).ok}))

\* DELETE\s+FROM\s+(\w+) at st: <<start, end>> of the entity
DeleteCapture(s, st) ==
    LET r == SkipSpace(s, st + 6)
        a == SkipSpace(s, r + 4)
        b == SkipWord(s, a)
        e == IF /\ MatchLit(s, st, "DELETE", TRUE)
                /\ r > st + 6
                /\ MatchLit(s, r, "FROM", TRUE)
                /\ a > r + 4
             THEN LastOf({x \in (a + 1)..b : WhereTail(s, x).ok})
             ELSE 0
    IN  IF e = 0 THEN <<>> ELSE <<a, e>>

DeleteMatchWith(s, cap) ==
    IF cap = <<>> THEN NoMatch
    ELSE [WhereTail(s, cap[2]) EXCEPT !.entity = SubSeq(s, cap[1], cap[2] - 1)]

\* /DELETE\s+FROM\s+(\w+)(?:\s+WHERE\s+(.*?))?;/i tried at st
DeleteMatchAt(s, st) == DeleteMatchWith(s, DeleteCapture(s, st))

DeleteMatch(s) ==
    DeleteMatchAt(s, FirstOf({st \in KeywordStarts(s, "DELETE") :
                                 DeleteMatchAt(s, st).ok}))

\* \)\s+VALUES\s+\( at i: the index after it, or 0
ValuesAt(s, i) ==
    LET v == SkipSpace(s, i + 1)
        p == SkipSpace(s, v + 6)
    IN  IF /\ Ch(s, i) = ")"
           /\ v > i + 1
           /\ MatchLit(s, v, "VALUES", TRUE)
           /\ p > v + 6
           /\ Ch(s, p) = "("
        THEN p + 1
        ELSE 0

\* (.*?)\); from index v: the index of the first ")" that ";" follows, or 0
ValuesEnd(s, v) ==
    IF v = 0 THEN 0
    ELSE FirstOf({q \in v..(Len(s) - 1) :
                     q <= DotEnd(s, v) /\ Ch(s, q) = ")" /\ Ch(s, q + 1) = ";"})

\* INSERT\s+INTO\s+(\w+)\s+\((.*?)\)\s+VALUES\s+\( at st: <<start, end>> of
\* the entity and of the column list
InsertCapture(s, st) ==
    LET r == SkipSpace(s, st + 6)
        a == SkipSpace(s, r + 4)
        b == SkipWord(s, a)
        c == SkipSpace(s, b)
        q == IF /\ MatchLit(s, st, "INSERT", TRUE)
                /\ r > st + 6
                /\ MatchLit(s, r, "INTO", TRUE)
                /\ a > r + 4
                /\ b > a
                /\ c > b
                /\ Ch(s, c) = "("
             THEN FirstOf({x \in (c + 1)..Len(s) :
                              /\ x <= DotEnd(s, c + 1)
                              /\ ValuesEnd(s, ValuesAt(s, x)) > 0})
             ELSE 0
    IN  IF q = 0 THEN <<>> ELSE <<<<a, b>>, <<c + 1, q>>>>

InsertMatchWith(s, cap) ==
    IF cap = <<>> THEN NoMatch
    ELSE [Matched EXCEPT
              !.entity = SubSeq(s, cap[1][1], cap[1][2] - 1),
              !.columnsStr = SubSeq(s, cap[2][1], cap[2][2] - 1),
              !.valuesStr = SubSeq(s, ValuesAt(s, cap[2][2]),
                                   ValuesEnd(s, ValuesAt(s, cap[2][2])) - 1)]

\* /INSERT\s+INTO\s+(\w+)\s+\((.*?)\)\s+VALUES\s+\((.*?)\);/i tried at st
InsertMatchAt(s, st) == InsertMatchWith(s, InsertCapture(s, st))

InsertMatch(s) ==
    InsertMatchAt(s, FirstOf({st \in KeywordStarts(s, "INSERT") :
                                 InsertMatchAt(s, st).ok}))

-----------------------------------------------------------------------------
(* SqlParser: the ParsedQuery and the four statement parsers               *)
(*                                                                         *)
(* An optional field of ParsedQuery is <<>> when it is not set and <<v>>   *)
(* when it is v.  A value of `values` is [t, v]: its JavaScript type and   *)
(* its JSON text (the string itself for a string).                         *)

Thrown(msg) == [ok |-> FALSE, error |-> msg, query |-> None]

Returned(q) == [ok |-> TRUE, error |-> "", query |-> Some(q)]

UnsupportedOperation ==
    "Unsupported SQL operation. Only SELECT, INSERT, UPDATE, and DELETE are supported."

\* array.map(x => x.trim())
RECURSIVE TrimAll(_)
TrimAll(a) == IF a = <<>> THEN <<>> ELSE <<trim(a[1])>> \o TrimAll(Tail(a))

\* if (whereClause) query.filter = this.translateWhereClause(whereClause)
FilterOf(where) ==
    IF where = None \/ where[1] = "" THEN None
    ELSE Some(translateWhereClause(where[1]))

\* SqlParser.parseOrderBy
RECURSIVE OrderItems(_)
OrderItems(items) ==
    IF items = <<>> THEN <<>>
    ELSE LET parts == splitSpace(trim(items[1]))
             second == IF Len(parts) >= 2 /\ parts[2] # "" THEN parts[2] ELSE "ASC"
         IN  <<[field |-> parts[1],
                direction |-> IF toUpperCase(second) = "DESC" THEN "desc" ELSE "asc"]>>
             \o OrderItems(Tail(items))

\* parseOrderBy without the split at the commas
parseOrderByUnsplit(orderByClause) == OrderItems(<<orderByClause>>)

parseOrderBy(orderByClause) == OrderItems(split(orderByClause, ","))

\* the literals Number() reads as a decimal number: an optional sign, digits
\* and an optional fraction, with a digit on one side of the point at least
IsNumber(t) ==
    LET d == IF Ch(t, 1) \in {"+", "-"} THEN 2 ELSE 1
        a == SkipDigits(t, d)
        b == IF Ch(t, a) = "." THEN SkipDigits(t, a + 1) ELSE a
    IN  b = Len(t) + 1 /\ (a > d \/ b > a + 1)

\* the digits of a fraction without its trailing zeros
RECURSIVE StripZeros(_)
StripZeros(f) ==
    IF f # "" /\ Ch(f, Len(f)) = "0" THEN StripZeros(SubSeq(f, 1, Len(f) - 1)) ELSE f

\* JSON.stringify(Number(t)) for such a literal, and for "" (Number("") is 0)
NumberText(t) ==
    LET d == IF Ch(t, 1) \in {"+", "-"} THEN 2 ELSE 1
        a == SkipDigits(t, d)
        n == parseInt(SubSeq(t, d, a - 1))
        f == StripZeros(SubSeq(t, a + 1, Len(t)))
    IN  (IF Ch(t, 1) = "-" /\ (n # 0 \/ f # "") THEN "-" ELSE "")
        \o ToString(n) \o (IF f # "" THEN "." \o f ELSE "")

\* the literal typing of parseInsert for the trimmed token t (of the numeric
\* literals the decimal ones and the empty token are modelled)
TypedValue(t) ==
    IF startsWith(t, "'") /\ endsWith(t, "'")
    THEN [t |-> "string", v |-> IF Len(t) = 1 THEN t ELSE SubSeq(t, 2, Len(t) - 1)]
    ELSE IF t = "" \/ IsNumber(t) THEN [t |-> "number", v |-> NumberText(t)]
    ELSE IF toLowerCase(t) = "true" THEN [t |-> "boolean", v |-> "true"]
    ELSE IF toLowerCase(t) = "false" THEN [t |-> "boolean", v |-> "false"]
    ELSE IF toLowerCase(t) = "null" THEN [t |-> "null", v |-> "null"]
    ELSE [t |-> "string", v |-> t]

\* SetTypedValue with the booleans compared without toLowerCase()
SetTypedValueCaseSensitive(valueStr) ==
    IF startsWith(valueStr, "'") /\ endsWith(valueStr, "'")
    THEN [t |-> "string",
          v |-> IF Len(valueStr) = 1 THEN valueStr
                ELSE SubSeq(valueStr, 2, Len(valueStr) - 1)]
    ELSE IF valueStr = "" \/ IsNumber(valueStr)
    THEN [t |-> "number", v |-> NumberText(valueStr)]
    ELSE IF valueStr = "true" THEN [t |-> "boolean", v |-> "true"]
    ELSE IF valueStr = "false" THEN [t |-> "boolean", v |-> "false"]
    ELSE IF toLowerCase(valueStr) = "null" THEN [t |-> "null", v |-> "null"]
    ELSE [t |-> "string", v |-> valueStr]

\* the literal typing of parseUpdate: the value setValues[column] gets for
\* the trimmed text valueStr
SetTypedValue(valueStr) ==
    IF startsWith(valueStr, "'") /\ endsWith(valueStr, "'")
    THEN [t |-> "string",
          v |-> IF Len(valueStr) = 1 THEN valueStr
                ELSE SubSeq(valueStr, 2, Len(valueStr) - 1)]
    ELSE IF valueStr = "" \/ IsNumber(valueStr)
    THEN [t |-> "number", v |-> NumberText(valueStr)]
    ELSE IF toLowerCase(valueStr) = "true" THEN [t |-> "boolean", v |-> "true"]
    ELSE IF toLowerCase(valueStr) = "false" THEN [t |-> "boolean", v |-> "false"]
    ELSE IF toLowerCase(valueStr) = "null" THEN [t |-> "null", v |-> "null"]
    ELSE [t |-> "string", v |-> valueStr]

Undefined == [t |-> "undefined", v |-> "undefined"]

\* obj[key] = value: a new key goes last, a known key keeps its place
SetKey(obj, key, value) ==
    IF \E i \in 1..Len(obj) : obj[i].key = key
    THEN [i \in 1..Len(obj) |->
              IF obj[i].key = key THEN [key |-> key, value |-> value] ELSE obj[i]]
    ELSE Append(obj, [key |-> key, value |-> value])

\* ValueAt with null, not undefined, where the value list has ended
ValueAtOrNull(values, i) ==
    IF i <= Len(values) THEN TypedValue(trim(values[i]))
    ELSE [t |-> "null", v |-> "null"]

\* values[index] of the typed value list: undefined past its end
ValueAt(values, i) ==
    IF i <= Len(values) THEN TypedValue(trim(values[i])) ELSE Undefined

\* columns.forEach((col, index) => { valuesObj[col] = values[index]; })
RECURSIVE InsertValues(_, _, _, _)
InsertValues(columns, values, i, obj) ==
    IF i > Len(columns) THEN obj
    ELSE InsertValues(columns, values, i + 1,
                      SetKey(obj, columns[i], ValueAt(values, i)))

\* setClause.split(',').forEach(assignment => ...): the values object; not
\* ok when an assignment has no "=" (valueStr is undefined, startsWith throws)
RECURSIVE SetValues(_, _, _)
SetValues(assignments, i, obj) ==
    IF i > Len(assignments) THEN [ok |-> TRUE, obj |-> obj]
    ELSE LET parts == TrimAll(split(assignments[i], "="))
         IN  IF Len(parts) < 2 THEN [ok |-> FALSE, obj |-> obj]
             ELSE SetValues(assignments, i + 1,
                            SetKey(obj, parts[1], SetTypedValue(parts[2])))

EmptyQuery ==
    [operation |-> "", entity |-> "", fields |-> None, filter |-> None,
     orderBy |-> None, limit |-> None, values |-> None]

SelectQuery(match) ==
    IF ~match.ok THEN Thrown("Invalid SELECT query format")
    ELSE Returned([EmptyQuery EXCEPT
             !.operation = "SELECT",
             !.entity = match.entity,
             !.fields = Some(TrimAll(split(match.fieldsStr, ","))),
             !.filter = FilterOf(match.where),
             !.orderBy = IF match.orderBy = None \/ match.orderBy[1] = ""
                         THEN None
                         ELSE Some(parseOrderBy(match.orderBy[1])),
             !.limit = IF match.limit = None THEN None
                       ELSE Some(parseInt(match.limit[1]))])

parseSelect(sql) == SelectQuery(SelectMatch(sql))

InsertQuery(match) ==
    IF ~match.ok THEN Thrown("Invalid INSERT query format")
    ELSE Returned([EmptyQuery EXCEPT
             !.operation = "INSERT",
             !.entity = match.entity,
             !.values = Some(InsertValues(TrimAll(split(match.columnsStr, ",")),
                                          split(match.valuesStr, ","), 1, <<>>))])

parseInsert(sql) == InsertQuery(InsertMatch(sql))

UpdateQueryWith(match, setValues) ==
    IF ~setValues.ok
    THEN Thrown("TypeError: Cannot read properties of undefined "
                \o "(reading 'startsWith')")
    ELSE Returned([EmptyQuery EXCEPT
             !.operation = "UPDATE",
             !.entity = match.entity,
             !.values = Some(setValues.obj),
             !.filter = FilterOf(match.where)])

UpdateQuery(match) ==
    IF ~match.ok THEN Thrown("Invalid UPDATE query format")
    ELSE UpdateQueryWith(match, SetValues(split(match.setClause, ","), 1, <<>>))

parseUpdate(sql) == UpdateQuery(UpdateMatch(sql))

DeleteQuery(match) ==
    IF ~match.ok THEN Thrown("Invalid DELETE query format")
    ELSE Returned([EmptyQuery EXCEPT
             !.operation = "DELETE",
             !.entity = match.entity,
             !.filter = FilterOf(match.where)])

parseDelete(sql) == DeleteQuery(DeleteMatch(sql))

\* the dispatch of parse on the statement, trimmed and ended with ";"
Dispatch(sql, upper) ==
    IF startsWith(upper, "SELECT") THEN parseSelect(sql)
    ELSE IF startsWith(upper, "INSERT") THEN parseInsert(sql)
    ELSE IF startsWith(upper, "UPDATE") THEN parseUpdate(sql)
    ELSE IF startsWith(upper, "DELETE") THEN parseDelete(sql)
    ELSE Thrown(UnsupportedOperation)

\* sql = sql.trim(); if (!sql.endsWith(';')) sql += ';'
Terminated(trimmed) == IF endsWith(trimmed, ";") THEN trimmed ELSE trimmed \o ";"

\* SqlParser.parse
parse(text) == Dispatch(Terminated(trim(text)), toUpperCase(Terminated(trim(text))))

-----------------------------------------------------------------------------
(* QueryToolController: buildQueryUrl and the request of executeQuery      *)

\* the characters URLSearchParams writes as they are
FormSafe == LowerLetters \cup UpperLetters \cup Digits \cup {"*", "-", ".", "_"}

PercentOf ==
    ("$" :> "%24") @@ ("," :> "%2C") @@ ("'" :> "%27") @@ ("=" :> "%3D") @@
    ("<" :> "%3C") @@ (">" :> "%3E") @@ ("{" :> "%7B") @@ ("}" :> "%7D") @@
    ("(" :> "%28") @@ (")" :> "%29") @@ (";" :> "%3B") @@ ("/" :> "%2F") @@
    (":" :> "%3A") @@ ("&" :> "%26") @@ ("?" :> "%3F") @@ ("%" :> "%25") @@
    ("+" :> "%2B") @@ ("!" :> "%21") @@ ("#" :> "%23") @@ ("@" :> "%40") @@
    ("[" :> "%5B") @@ ("]" :> "%5D") @@ ("|" :> "%7C") @@ ("~" :> "%7E") @@
    ("^" :> "%5E") @@ ("\"" :> "%22") @@ ("\\" :> "%5C") @@
    ("\t" :> "%09") @@ ("\n" :> "%0A") @@ ("\r" :> "%0D")

\* the application/x-www-form-urlencoded serialisation of a name or a value
RECURSIVE FormEncode(_)
FormEncode(s) ==
    IF s = "" THEN ""
    ELSE LET c == Head(s)
         IN  (IF c \in FormSafe THEN c
              ELSE IF c = " " THEN "+"
              ELSE PercentOf[c]) \o FormEncode(Tail(s))

\* URLSearchParams.toString() of the appended <<name, value>> pairs
RECURSIVE ParamsToString(_)
ParamsToString(params) ==
    IF params = <<>> THEN ""
    ELSE FormEncode(params[1][1]) \o "=" \o FormEncode(params[1][2])
         \o (IF Len(params) > 1 THEN "&" ELSE "") \o ParamsToString(Tail(params))

\* orderBy.map(item => `${item.field} ${item.direction}`)
RECURSIVE OrderByTexts(_)
OrderByTexts(orderBy) ==
    IF orderBy = <<>> THEN <<>>
    ELSE <<orderBy[1].field \o " " \o orderBy[1].direction>> \o OrderByTexts(Tail(orderBy))

\* the index after the run of [^'] that starts at i
RECURSIVE SkipUnquoted(_, _)
SkipUnquoted(s, i) ==
    IF i <= Len(s) /\ Ch(s, i) # "'" THEN SkipUnquoted(s, i + 1) ELSE i

\* /(\w+id)\s+eq\s+'([^']+)'/i tried at the start index st: \w+ gives back
\* the two characters of "id", which end the run of \w since \s+ follows
IdMatchAt(s, st) ==
    LET b == SkipWord(s, st)
        c == SkipSpace(s, b)
        d == SkipSpace(s, c + 2)
        e == SkipUnquoted(s, d + 1)
    IN  IF /\ b - st >= 3
           /\ MatchLit(s, b - 2, "id", TRUE)
           /\ c > b
           /\ MatchLit(s, c, "eq", TRUE)
           /\ d > c + 2
           /\ Ch(s, d) = "'"
           /\ e > d + 1
           /\ Ch(s, e) = "'"
        THEN [ok |-> TRUE, idField |-> SubSeq(s, st, b - 1),
              idValue |-> SubSeq(s, d + 1, e - 1)]
        ELSE NoMatch

\* filter.match(/(\w+id)\s+eq\s+'([^']+)'/i)
IdMatch(s) ==
    LET starts == {st \in 1..Len(s) : IdMatchAt(s, st).ok}
    IN  IF starts = {} THEN NoMatch ELSE IdMatchAt(s, Min(starts))

ApiPath == "/api/data/v9.2/"

\* RecordUrl without idValue.replace(/[{}]/g, '')
RecordUrlWithBraces(url, filterText) ==
    LET idMatch == IdMatch(filterText)
    IN  IF idMatch.ok
        THEN url \o "(" \o idMatch.idValue \o ")"
        ELSE url \o "?$filter=" \o filterText

\* the UPDATE and DELETE branches of buildQueryUrl (filter is set)
RecordUrl(url, filterText) ==
    LET idMatch == IdMatch(filterText)
    IN  IF idMatch.ok
        THEN url \o "(" \o StripBraces(idMatch.idValue) \o ")"
        ELSE url \o "?$filter=" \o filterText

\* SelectParams with $top appended before $orderby
SelectParamsTopFirst(q) ==
    (IF q.fields # None /\ Len(q.fields[1]) > 0
     THEN <<<<"$select", join(q.fields[1], ",")>>>> ELSE <<>>)
    \o (IF q.filter # None THEN <<<<"$filter", q.filter[1]>>>> ELSE <<>>)
    \o (IF q.limit # None /\ q.limit[1] # 0
        THEN <<<<"$top", ToString(q.limit[1])>>>> ELSE <<>>)
    \o (IF q.orderBy # None /\ Len(q.orderBy[1]) > 0
        THEN <<<<"$orderby", join(OrderByTexts(q.orderBy[1]), ",")>>>> ELSE <<>>)

\* the SELECT branch of buildQueryUrl
SelectParams(q) ==
    (IF q.fields # None /\ Len(q.fields[1]) > 0
     THEN <<<<"$select", join(q.fields[1], ",")>>>> ELSE <<>>)
    \o (IF q.filter # None THEN <<<<"$filter", q.filter[1]>>>> ELSE <<>>)
    \o (IF q.orderBy # None /\ Len(q.orderBy[1]) > 0
        THEN <<<<"$orderby", join(OrderByTexts(q.orderBy[1]), ",")>>>> ELSE <<>>)
    \o (IF q.limit # None /\ q.limit[1] # 0
        THEN <<<<"$top", ToString(q.limit[1])>>>> ELSE <<>>)

\* QueryToolController.buildQueryUrl
buildQueryUrl(orgUrl, q) ==
    LET url == orgUrl \o ApiPath \o q.entity
    IN  IF q.operation = "UPDATE" /\ q.filter # None THEN RecordUrl(url, q.filter[1])
        ELSE IF q.operation = "DELETE" /\ q.filter # None THEN RecordUrl(url, q.filter[1])
        ELSE IF q.operation = "SELECT"
        THEN LET queryString == ParamsToString(SelectParams(q))
             IN  IF queryString # "" THEN url \o "?" \o queryString ELSE url
        ELSE url

\* JSON.stringify of a string
RECURSIVE JsonEscape(_)
JsonEscape(s) ==
    IF s = "" THEN ""
    ELSE LET c == Head(s)
         IN  (IF c = "\"" THEN "\\\""
              ELSE IF c = "\\" THEN "\\\\"
              ELSE IF c = "\t" THEN "\\t"
              ELSE IF c = "\n" THEN "\\n"
              ELSE IF c = "\r" THEN "\\r"
              ELSE c) \o JsonEscape(Tail(s))

JsonString(s) == "\"" \o JsonEscape(s) \o "\""

\* the "key":value members JSON.stringify writes: none for an undefined value
RECURSIVE JsonMembers(_)
JsonMembers(obj) ==
    IF obj = <<>> THEN <<>>
    ELSE (IF obj[1].value.t = "undefined" THEN <<>>
          ELSE <<JsonString(obj[1].key) \o ":"
                 \o (IF obj[1].value.t = "string" THEN JsonString(obj[1].value.v)
                     ELSE obj[1].value.v)>>)
         \o JsonMembers(Tail(obj))

\* JSON.stringify(parsedQuery.values)
JsonStringify(obj) == "{" \o join(JsonMembers(obj), ",") \o "}"

\* the index of the first of the characters `stops` at or after i
RECURSIVE SkipUntil(_, _, _)
SkipUntil(s, i, stops) ==
    IF i > Len(s) \/ Ch(s, i) \in stops THEN i ELSE SkipUntil(s, i + 1, stops)

\* new URL(orgUrl): `${urlObj.protocol}//${urlObj.hostname}`, and orgUrl itself
\* when the constructor throws
OriginOf(orgUrl) ==
    LET colon == SkipUntil(orgUrl, 1, {":"})
    IN  IF colon > 1 /\ colon + 2 < Len(orgUrl) /\ SubSeq(orgUrl, colon, colon + 2) = "://"
        THEN SubSeq(orgUrl, 1, SkipUntil(orgUrl, colon + 3, {"/", "?", "#", ":"}) - 1)
        ELSE orgUrl

MethodOf(operation) ==
    CASE operation = "SELECT" -> "GET"
      [] operation = "INSERT" -> "POST"
      [] operation = "UPDATE" -> "PATCH"
      [] operation = "DELETE" -> "DELETE"

\* the body of the request: JSON.stringify(parsedQuery.values) for INSERT and
\* UPDATE, null otherwise
BodyOf(q) ==
    IF q.operation \in {"INSERT", "UPDATE"} THEN Some(JsonStringify(q.values[1]))
    ELSE None

\* HeadersOf with Content-Type set whether or not there is a body
HeadersOfAlwaysTyped(body) ==
    {<<"Accept", "application/json">>, <<"OData-MaxVersion", "4.0">>,
     <<"OData-Version", "4.0">>, <<"Content-Type", "application/json">>}

\* the headers of the request: Content-Type when body is truthy
HeadersOf(body) ==
    {<<"Accept", "application/json">>, <<"OData-MaxVersion", "4.0">>,
     <<"OData-Version", "4.0">>}
    \cup (IF body # None /\ body[1] # ""
          THEN {<<"Content-Type", "application/json">>} ELSE {})

\* the arguments of fetch in QueryToolController.executeQuery
RequestOf(orgUrl, q) ==
    [method |-> MethodOf(q.operation),
     url |-> buildQueryUrl(OriginOf(orgUrl), q),
     headers |-> HeadersOf(BodyOf(q)),
     body |-> BodyOf(q)]

-----------------------------------------------------------------------------
(* DynamicsApi: executeQuery, executeRetrieve, executeCreate, executeUpdate *)
(* and executeDelete                                                       *)

\* `${this.clientUrl}/api/data/v${this.apiVersion}/${entity}`
EntityUrl(client, entity) == client \o ApiPath \o entity

\* the URL executeRetrieve builds
RetrieveUrl(client, query) ==
    EntityUrl(client, query.entity)
    \o (IF ParamsToString(SelectParams(query)) # "" THEN "?" ELSE "")
    \o ParamsToString(SelectParams(query))

ReadHeaders ==
    {<<"Accept", "application/json">>, <<"OData-MaxVersion", "4.0">>,
     <<"OData-Version", "4.0">>}

WriteHeaders == ReadHeaders \cup {<<"Content-Type", "application/json">>}

\* the fetch of executeRetrieve
RetrieveRequest(client, query) ==
    [method |-> "GET", url |-> RetrieveUrl(client, query),
     headers |-> ReadHeaders, body |-> None]

\* the query executeUpdate and executeDelete retrieve with
RecordsQuery(query) ==
    [EmptyQuery EXCEPT !.operation = "SELECT", !.entity = query.entity,
                       !.filter = query.filter]

\* the fetch of executeCreate
CreateRequest(client, query) ==
    [method |-> "POST", url |-> EntityUrl(client, query.entity),
     headers |-> WriteHeaders, body |-> Some(JsonStringify(query.values[1]))]

\* { ...values } spread over obj
RECURSIVE Spread(_, _)
Spread(obj, values) ==
    IF values = <<>> THEN obj
    ELSE Spread(SetKey(obj, values[1].key, values[1].value), Tail(values))

\* return { id: entityId, ...values } of executeCreate
Created(values) ==
    Spread(<<[key |-> "id", value |-> [t |-> "string", v |-> "OData-EntityId"]]>>,
           values)

\* record[key] written into a template literal
RECURSIVE TextOf(_, _)
TextOf(record, key) ==
    IF record = <<>> THEN Undefined.v
    ELSE IF record[1].key = key THEN record[1].value.v
    ELSE TextOf(Tail(record), key)

\* RecordId reading the field "id" instead of the entity's id field
RecordIdPlain(query, record) == TextOf(record, "id")

\* const recordId = record[`${entity}id`]
RecordId(query, record) == TextOf(record, query.entity \o "id")

\* the fetch of one callback of recordsToUpdate.map / recordsToDelete.map
MutationRequest(client, query, record) ==
    [method |-> IF query.operation = "UPDATE" THEN "PATCH" ELSE "DELETE",
     url |-> EntityUrl(client, query.entity) \o "(" \o RecordId(query, record) \o ")",
     headers |-> IF query.operation = "UPDATE" THEN WriteHeaders ELSE ReadHeaders,
     body |-> IF query.operation = "UPDATE" THEN Some(JsonStringify(query.values[1]))
              ELSE None]

\* recordsToUpdate.map(async (record) => ...): one fetch per record, made in
\* the order of the records before any of them settles
RECURSIVE MutationRequests(_, _, _)
MutationRequests(client, query, recs) ==
    IF recs = <<>> THEN <<>>
    ELSE <<MutationRequest(client, query, recs[1])>>
         \o MutationRequests(client, query, Tail(recs))

\* AllFulfilled as Promise.any would have it
AnyFulfilled(ps) == \E i \in 1..Len(ps) : ps[i] = "fulfilled"

\* await Promise.all(promises) goes on when every promise is fulfilled
AllFulfilled(ps) == \A i \in 1..Len(ps) : ps[i] = "fulfilled"

Pending == [state |-> "pending", error |-> "", data |-> <<>>]

Resolved(data) == [state |-> "resolved", error |-> "", data |-> data]

\* catch (error) of executeQuery: throw new Error(`Dynamics API error: ...`)
Rejected(message) ==
    [state |-> "rejected", error |-> "Dynamics API error: " \o message, data |-> <<>>]

NotInitialized ==
    [state |-> "rejected",
     error |-> "Dynamics API not initialized. "
               \o "Please navigate to a Dynamics CRM instance first.",
     data |-> <<>>]

\* what a failed fetch throws: response.ok is false, or fetch itself rejects
FailureOf(outcome) == IF outcome = "httpError" THEN "HTTP error" ELSE "Failed to fetch"

\* the checks executeCreate, executeUpdate and executeDelete make before
\* their first fetch: the message thrown, or "" when they pass
Refusal(query) ==
    IF query.operation \in {"INSERT", "UPDATE"} /\ query.values = None
    THEN "No values provided for " \o query.operation \o " operation"
    ELSE IF query.operation \in {"UPDATE", "DELETE"}
            /\ (query.filter = None \/ query.filter[1] = "")
    THEN "Filter (WHERE clause) is required for " \o query.operation \o " operations"
    ELSE ""

\* the first fetch of executeQuery(query)
FirstRequest(client, query) ==
    IF query.operation = "INSERT" THEN CreateRequest(client, query)
    ELSE IF query.operation = "SELECT" THEN RetrieveRequest(client, query)
    ELSE RetrieveRequest(client, RecordsQuery(query))

-----------------------------------------------------------------------------
(* WHERE clauses given to translateWhereClause                             *)

MaxConds == 2

Operators == {"=", "<>", ">", "<", ">=", "<=", "LIKE", "IS NULL", "IS NOT NULL"}

SymbolOperators == {"=", "<>", ">", "<", ">=", "<="}

UnaryOperators == {"IS NULL", "IS NOT NULL"}

Connectives == {"AND", "OR"}

\* the ways a clause is written: the white space before and after an operator
\* or keyword, the letter case of the keywords, and whether the right operands
\* are string literals that hold operator characters and keywords
Styles ==
    { [before |-> "", after |-> "", upper |-> TRUE, literals |-> FALSE],
      [before |-> " ", after |-> " ", upper |-> TRUE, literals |-> FALSE],
      [before |-> "  ", after |-> "\t", upper |-> FALSE, literals |-> FALSE],
      [before |-> " ", after |-> "", upper |-> FALSE, literals |-> FALSE],
      [before |-> " ", after |-> " ", upper |-> TRUE, literals |-> TRUE] }

\* the operands of the i-th condition
LeftOperand(i) == <<"age", "name", "x">>[((i - 1) % 3) + 1]

RightOperand(c, i) ==
    IF c.literals THEN <<"'a=b'", "'R AND D'", "'x > 1'">>[((i - 1) % 3) + 1]
    ELSE <<"18", "'Bob'", "y">>[((i - 1) % 3) + 1]

Clauses ==
    { [ops |-> o, conns |-> c, before |-> st.before, after |-> st.after,
       upper |-> st.upper, literals |-> st.literals] :
          o \in UNION {[1..n -> Operators] : n \in 1..MaxConds},
          c \in UNION {[1..n -> Connectives] : n \in 0..(MaxConds - 1)},
          st \in Styles }

WellFormed(c) == Len(c.conns) = Len(c.ops) - 1

\* a keyword as written: upper or lower case, at least one space around it
Written(c, kw) == IF c.upper THEN kw ELSE toLowerCase(kw)

Gap(sp) == IF sp = "" THEN " " ELSE sp

CondText(c, i) ==
    LET op == c.ops[i]
    IN  IF op \in SymbolOperators
        THEN LeftOperand(i) \o c.before \o op \o c.after \o RightOperand(c, i)
        ELSE IF op \in UnaryOperators
        THEN LeftOperand(i) \o Gap(c.before) \o Written(c, op)
        ELSE LeftOperand(i) \o Gap(c.before) \o Written(c, op) \o Gap(c.after)
                 \o RightOperand(c, i)

RECURSIVE ClauseFrom(_, _)
ClauseFrom(c, i) ==
    IF i = Len(c.ops) THEN CondText(c, i)
    ELSE CondText(c, i) \o Gap(c.before) \o Written(c, c.conns[i]) \o Gap(c.after)
             \o ClauseFrom(c, i + 1)

ClauseText(c) == ClauseFrom(c, 1)

NoClause ==
    [ops |-> <<>>, conns |-> <<>>, before |-> "", after |-> "", upper |-> TRUE,
     literals |-> FALSE]

WhereIdle == whereClause = "" /\ clause = NoClause /\ filter = "" /\ wpc = "input"

ParseIdle == parseInput = "" /\ result = [ok |-> FALSE, error |-> "", query |-> <<>>] /\ ppc = "input"

Ready == [message |-> "Ready", type |-> "normal"]

ToolIdle ==
    /\ sqlQueryTextarea = ""
    /\ orgStorage = ""
    /\ pc = "idle"
    /\ parsedQuery = <<>>
    /\ request = <<>>
    /\ status = Ready
    /\ disabled = FALSE

\* the fields of a new QueryToolController
PageIdle ==
    /\ currentResult = None
    /\ currentPage = 1
    /\ sortColumn = 0
    /\ sortAscending = TRUE

\* the query-tool pages that can be open
Pages == {1, 2}

NoPage == [pc |-> "closed", seen |-> None, textarea |-> ""]

HandoffIdle ==
    /\ pendingQuery = None
    /\ popup = [text |-> "", pc |-> "idle", status |-> Ready, disabled |-> FALSE,
                parsedQuery |-> None]
    /\ pages = [p \in Pages |-> NoPage]
    /\ executions = <<>>

OtherIdle == HandoffIdle /\ calls = <<>>

ApiIdle ==
    /\ clientUrl = None
    /\ apiQuery = EmptyQuery
    /\ apc = "idle"
    /\ records = <<>>
    /\ promises = <<>>
    /\ fetched = <<>>
    /\ apiResult = Pending

InitWhere ==
    /\ clause \in {c \in Clauses : WellFormed(c)}
    /\ whereClause = ClauseText(clause)
    /\ filter = ""
    /\ wpc = "input"
    /\ ParseIdle
    /\ ToolIdle
    /\ ApiIdle
    /\ PageIdle
    /\ OtherIdle

TranslateWhere ==
    /\ wpc = "input"
    /\ filter' = translateWhereClause(whereClause)
    /\ wpc' = "translated"
    /\ UNCHANGED <<whereClause, clause, parseVars, toolVars, apiVars, pageVars, otherVars>>

NextWhere == TranslateWhere

SpecWhere == InitWhere /\ [][NextWhere]_vars

-----------------------------------------------------------------------------
(* The statements given to parse and typed into the query tool             *)

Entities == {"account", "contact"}

UpdateStatement(e, w) == "UPDATE " \o e \o " SET name = 'X' WHERE " \o w

DeleteStatement(e, w) == "DELETE FROM " \o e \o " WHERE " \o w

\* WHERE clauses that name a record: the clause and the id it names
IdCases ==
    { [where |-> "accountid eq '{123}'", id |-> "123"],
      [where |-> "accountid = '123'", id |-> "123"],
      [where |-> "ContactID  EQ  '{A-1}'", id |-> "A-1"],
      [where |-> "name = 'x' AND accountid = '{7}'", id |-> "7"],
      [where |-> "paid eq 'yes'", id |-> "yes"] }

\* WHERE clauses that name no record
OtherWheres ==
    { "name = 'x'", "revenue > 1000", "accountid eq 123", "id eq '5'",
      "accountid eq ''", "accountid <> '1'" }

Wheres == {c.where : c \in IdCases} \cup OtherWheres

MutationStatements ==
    {UpdateStatement(e, w) : e \in Entities, w \in Wheres}
    \cup {DeleteStatement(e, w) : e \in Entities, w \in Wheres}
    \cup {"UPDATE " \o e \o " SET name = 'X'" : e \in Entities}
    \cup {"DELETE FROM " \o e : e \in Entities}
    \cup { "UPDATE account SET a=1, b = 'q' WHERE accountid = '123' AND x > 2",
           "UPDATE account SET name = 'a=b'",
           "UPDATE account SET name",
           "UPDATE account SET",
           "UPDATE account SET ;",
           "UPDATE t SET a=1; WHERE id=2",
           "update t set a = null where paid eq 'yes'",
           "UPDATEX t SET a = 1",
           "DELETE account WHERE x = 1",
           "DELETE FROM a; DELETE FROM b",
           "DELETE FROM account WHERE ;",
           "delete from account where name = 'x'",
           "DELETEFROM account" }

SelectStatements ==
    { "SELECT a, b FROM foo WHERE x = 1 ORDER BY y LIMIT 10",
      "SELECT a, b FROM foo WHERE x = 1 ORDER BY y LIMIT 10;",
      "select a,b from foo where x=1 order by y desc, z limit 5;",
      "SELECT * FROM foo",
      "  SELECT * FROM foo ;  ",
      "SELECT name, accountid FROM account LIMIT 10",
      "SELECT FROM foo",
      "SELECT  FROM foo",
      "SELECT a,,b FROM foo",
      "SELECT a FROM foo LIMIT abc",
      "SELECT a FROM foo WHERE x = 1 LIMIT abc",
      "SELECT a FROM foo WHERE x = 1 LIMIT -1",
      "SELECT a FROM foo ORDER BY y LIMIT 1.5",
      "SELECT a FROM foo LIMIT 0",
      "SELECT a FROM 1foo",
      "SELECT a FROM foo-bar",
      "SELECT a FROM foo WHERE x >= 1 AND y <> 2 OR z <= 3",
      "SELECT a FROM foo WHERE name LIKE 'a' AND y IS NULL",
      "SELECT a FROM foo ORDER BY y DESC,z asc , w foo",
      "SELECT a FROM foo; SELECT b FROM bar",
      "SELECT a\tFROM\tfoo\tWHERE\tx\t=\t1" }

InsertStatements ==
    { "INSERT INTO account (name, revenue, active) VALUES ('Acme', 1000, true)",
      "INSERT INTO account (name, revenue) VALUES ('Acme, Inc', 1000)",
      "INSERT INTO account (a, b, c) VALUES (1, 2)",
      "INSERT INTO account (a) VALUES (1, 2)",
      "INSERT INTO account (a, b) VALUES (NULL, False)",
      "INSERT account (a) VALUES (1)",
      "insert into contact (a) values ()" }

\* statements whose leading word is none of the four keywords
OtherStatements ==
    { "SELECTX SELECT a FROM foo", "SELECTX", "SELECTED a FROM foo",
      "INSERTS INTO account (a) VALUES (1)", "DROP TABLE foo", "SELEC a FROM foo",
      "FROM foo SELECT a", "EXPLAIN SELECT a FROM foo", ";" }

\* literal tokens, with the type and the value (as JSON text, a string
\* without its quotes) each stands for
TypedTokens ==
    { [text |-> "'Acme'", type |-> "string", value |-> "Acme"],
      [text |-> "'12'", type |-> "string", value |-> "12"],
      [text |-> "'true'", type |-> "string", value |-> "true"],
      [text |-> "'null'", type |-> "string", value |-> "null"],
      [text |-> "''", type |-> "string", value |-> ""],
      [text |-> "'it's'", type |-> "string", value |-> "it's"],
      [text |-> "1000", type |-> "number", value |-> "1000"],
      [text |-> "007", type |-> "number", value |-> "7"],
      [text |-> "-3", type |-> "number", value |-> "-3"],
      [text |-> "+7", type |-> "number", value |-> "7"],
      [text |-> "1.50", type |-> "number", value |-> "1.5"],
      [text |-> ".5", type |-> "number", value |-> "0.5"],
      [text |-> "true", type |-> "boolean", value |-> "true"],
      [text |-> "TRUE", type |-> "boolean", value |-> "true"],
      [text |-> "False", type |-> "boolean", value |-> "false"],
      [text |-> "null", type |-> "null", value |-> "null"],
      [text |-> "NULL", type |-> "null", value |-> "null"],
      [text |-> "abc", type |-> "string", value |-> "abc"],
      [text |-> "truex", type |-> "string", value |-> "truex"],
      [text |-> "12abc", type |-> "string", value |-> "12abc"],
      [text |-> "1.2.3", type |-> "string", value |-> "1.2.3"] }

InsertOf(token) == "INSERT INTO account (name) VALUES (" \o token \o ")"

UpdateOf(token) == "UPDATE account SET name = " \o token \o " WHERE accountid eq '1'"

TypingStatements ==
    {InsertOf(k.text) : k \in TypedTokens} \cup {UpdateOf(k.text) : k \in TypedTokens}

\* SET values that hold "=", with the typed value each stands for
EqualsTokens ==
    { [text |-> "'a=b'", type |-> "string", value |-> "a=b"],
      [text |-> "'='", type |-> "string", value |-> "="],
      [text |-> "a=b", type |-> "string", value |-> "a=b"],
      [text |-> "'a' = 'b'", type |-> "string", value |-> "a' = 'b"] }

AssignmentStatements == {UpdateOf(k.text) : k \in EqualsTokens}

\* what can stand before LIMIT, and LIMIT literals that are no non-negative
\* integer
LimitPrefixes == {"", " WHERE x = 1", " ORDER BY y", " WHERE x = 1 ORDER BY y"}

InvalidLimits == {"abc", "-1", "1.5"}

LimitStatement(prefix, literal) ==
    "SELECT a FROM foo" \o prefix \o " LIMIT " \o literal

InvalidLimitStatements ==
    {LimitStatement(p, l) : p \in LimitPrefixes, l \in InvalidLimits}

LimitStatements ==
    InvalidLimitStatements
    \cup {LimitStatement(p, l) : p \in LimitPrefixes, l \in {"0", "007", "25"}}

\* INSERT statements whose lists differ in length, with the values each
\* stands for
UnevenInserts ==
    { [text |-> "INSERT INTO account (a, b, c) VALUES (1, 2)",
       values |-> <<[key |-> "a", value |-> [t |-> "number", v |-> "1"]],
                    [key |-> "b", value |-> [t |-> "number", v |-> "2"]],
                    [key |-> "c", value |-> [t |-> "undefined", v |-> "undefined"]]>>],
      [text |-> "INSERT INTO account (a) VALUES (1, 2)",
       values |-> <<[key |-> "a", value |-> [t |-> "number", v |-> "1"]]>>],
      [text |-> "INSERT INTO contact (name, paid, age) VALUES ('Al')",
       values |-> <<[key |-> "name", value |-> [t |-> "string", v |-> "Al"]],
                    [key |-> "paid", value |-> [t |-> "undefined", v |-> "undefined"]],
                    [key |-> "age", value |-> [t |-> "undefined", v |-> "undefined"]]>>],
      [text |-> "INSERT INTO contact (name, paid) VALUES ('Al', true, 3, 'x')",
       values |-> <<[key |-> "name", value |-> [t |-> "string", v |-> "Al"]],
                    [key |-> "paid", value |-> [t |-> "boolean", v |-> "true"]]>>] }

\* ORDER BY lists, with the entries each stands for
OrderLists ==
    { [text |-> "y", items |-> <<[field |-> "y", direction |-> "asc"]>>],
      [text |-> "y DESC", items |-> <<[field |-> "y", direction |-> "desc"]>>],
      [text |-> "y Desc", items |-> <<[field |-> "y", direction |-> "desc"]>>],
      [text |-> "y  desc", items |-> <<[field |-> "y", direction |-> "desc"]>>],
      [text |-> "y ASC", items |-> <<[field |-> "y", direction |-> "asc"]>>],
      [text |-> "y descending", items |-> <<[field |-> "y", direction |-> "asc"]>>],
      [text |-> "y up", items |-> <<[field |-> "y", direction |-> "asc"]>>],
      [text |-> "y desc, z",
       items |-> <<[field |-> "y", direction |-> "desc"],
                   [field |-> "z", direction |-> "asc"]>>],
      [text |-> "z,y DESC",
       items |-> <<[field |-> "z", direction |-> "asc"],
                   [field |-> "y", direction |-> "desc"]>>],
      [text |-> "y DESC,z asc , w foo",
       items |-> <<[field |-> "y", direction |-> "desc"],
                   [field |-> "z", direction |-> "asc"],
                   [field |-> "w", direction |-> "asc"]>>] }

OrderStatement(list) == "SELECT a FROM foo ORDER BY " \o list

OrderStatements ==
    {OrderStatement(o.text) : o \in OrderLists}
    \cup {OrderStatement(o.text) \o " LIMIT 5" : o \in OrderLists}

\* statements with text before the statement or after its first ";"
ExtraTextStatements ==
    { "DELETE FROM a; DELETE FROM b", "UPDATE t SET a=1; WHERE id=2",
      "SELECTX SELECT a FROM foo", "SELECT a FROM foo; SELECT b FROM bar",
      "x SELECT a FROM foo", "INSERT INTO account (a) VALUES (1); DROP TABLE account" }

\* statements with a comma inside a quoted string
QuotedCommaStatements ==
    { "INSERT INTO account (name, revenue) VALUES ('Acme, Inc', 1000)",
      "UPDATE account SET name = 'Acme, Inc', revenue = 1000",
      "UPDATE account SET revenue = 1000, name = 'a,b=c' WHERE accountid eq '1'" }

\* statements that end in whitespace
PaddedStatements ==
    { "SELECT * FROM foo ", "SELECT a FROM foo WHERE x = 1  ",
      "DELETE FROM account WHERE name = 'x' ", "DROP TABLE foo\t",
      "INSERT INTO account (a) VALUES (1) " }

Statements ==
    SelectStatements \cup InsertStatements \cup MutationStatements
    \cup OtherStatements \cup TypingStatements \cup AssignmentStatements
    \cup LimitStatements \cup PaddedStatements
    \cup {u.text : u \in UnevenInserts} \cup OrderStatements
    \cup ExtraTextStatements \cup QuotedCommaStatements

-----------------------------------------------------------------------------
(* SqlParser.parse called on its own                                       *)

InitParse ==
    /\ parseInput \in Statements \cup {"", "   "}
    /\ result = [ok |-> FALSE, error |-> "", query |-> <<>>]
    /\ ppc = "input"
    /\ WhereIdle
    /\ ToolIdle
    /\ ApiIdle
    /\ PageIdle
    /\ OtherIdle

Parse ==
    /\ ppc = "input"
    /\ result' = parse(parseInput)
    /\ ppc' = "parsed"
    /\ UNCHANGED <<parseInput, whereVars, toolVars, apiVars, pageVars, otherVars>>

NextParse == Parse

SpecParse == InitParse /\ [][NextParse]_vars

-----------------------------------------------------------------------------
(* QueryToolController.executeQuery                                        *)

-----------------------------------------------------------------------------
(* QueryToolController: the result table, its pages and its sorting        *)

pageSize == 50

\* the cells of a result: a number, a string, null, or undefined
Num(n) == [t |-> "number", n |-> n, s |-> ""]

Str(text) == [t |-> "string", n |-> 0, s |-> text]

NullCell == [t |-> "null", n |-> 0, s |-> ""]

UndefinedCell == [t |-> "undefined", n |-> 0, s |-> ""]

\* Object.keys(item)
KeysOf(item) == [i \in 1..Len(item) |-> item[i].key]

\* item[col]
CellOf(item, col) ==
    IF \E i \in 1..Len(item) : item[i].key = col
    THEN item[CHOOSE i \in 1..Len(item) : item[i].key = col].value
    ELSE UndefinedCell

\* the FormattedResult processQueryResults stores for a non-empty results
FormattedResult(results) ==
    [columns |-> KeysOf(results[1]),
     rows |-> [i \in 1..Len(results) |->
                  [c \in 1..Len(results[1]) |-> CellOf(results[i], results[1][c].key)]],
     totalCount |-> Len(results)]

\* Math.ceil(totalCount / pageSize)
TotalPages(totalCount) == (totalCount + pageSize - 1) \div pageSize

\* String(value).toLowerCase()
CellText(cell) ==
    IF cell.t = "number" THEN ToString(cell.n)
    ELSE IF cell.t = "string" THEN toLowerCase(cell.s)
    ELSE cell.t

\* the characters of the modelled strings in the order localeCompare gives them
Collation == " -0123456789abcdefghijklmnopqrstuvwxyz"

Rank(c) ==
    IF \E i \in 1..Len(Collation) : SubSeq(Collation, i, i) = c
    THEN CHOOSE i \in 1..Len(Collation) : SubSeq(Collation, i, i) = c
    ELSE 0

\* strA.localeCompare(strB): negative, zero or positive
RECURSIVE localeCompare(_, _)
localeCompare(strA, strB) ==
    IF strA = "" /\ strB = "" THEN 0
    ELSE IF strA = "" THEN -1
    ELSE IF strB = "" THEN 1
    ELSE IF Head(strA) # Head(strB) THEN Rank(Head(strA)) - Rank(Head(strB))
    ELSE localeCompare(Tail(strA), Tail(strB))

\* the comparator sortResults gives to rows.sort
CompareCells(valueA, valueB, ascending) ==
    IF valueA.t = "null" /\ valueB.t = "null" THEN 0
    ELSE IF valueA.t = "null" THEN (IF ascending THEN -1 ELSE 1)
    ELSE IF valueB.t = "null" THEN (IF ascending THEN 1 ELSE -1)
    ELSE IF valueA.t = "number" /\ valueB.t = "number"
    THEN (IF ascending THEN valueA.n - valueB.n ELSE valueB.n - valueA.n)
    ELSE IF ascending THEN localeCompare(CellText(valueA), CellText(valueB))
    ELSE localeCompare(CellText(valueB), CellText(valueA))

\* rows.sort(comparator): the sort is stable, so a row stands behind the rows
\* the comparator puts before it and behind the equal rows that stood before it
SortRows(rows, column, ascending) ==
    LET n == Len(rows)
        place == [k \in 1..n |->
                     1 + Cardinality({j \in 1..n :
                             LET order == CompareCells(rows[j][column], rows[k][column],
                                                       ascending)
                             IN  order < 0 \/ (order = 0 /\ j < k)})]
    IN  [q \in 1..n |-> rows[CHOOSE k \in 1..n : place[k] = q]]

\* processQueryResults(results); displayResultPage and updatePagination write
\* the table body, the page label and the buttons from the fields below
processQueryResults(results) ==
    IF results = <<>> THEN UNCHANGED pageVars
    ELSE /\ currentResult' = Some(FormattedResult(results))
         /\ UNCHANGED <<currentPage, sortColumn, sortAscending>>

\* the results executeQuery processes after an ok response
ResultsFor(method, value, entityId) ==
    IF method = "GET" THEN value
    ELSE IF method = "POST"
    THEN <<<<[key |-> "result", value |-> Str("Record created successfully")],
             [key |-> "entityId",
              value |-> Str(IF entityId # "" THEN entityId ELSE "ID not available")]>>>>
    ELSE <<<<[key |-> "result", value |-> Str("Operation completed successfully")]>>>>

\* the records a GET can answer with: n records of two numeric columns
RecordsOfSize(n) ==
    [i \in 1..n |->
        <<[key |-> "revenue", value |-> Num((i * 7) % 5)],
          [key |-> "employees",
           value |-> IF i % 4 = 0 THEN NullCell ELSE Num((i * 3) % 11)]>>]

NamedRecords ==
    << <<[key |-> "name", value |-> Str("bob")], [key |-> "age", value |-> Num(30)]>>,
       <<[key |-> "name", value |-> Str("Al")], [key |-> "age", value |-> NullCell]>>,
       <<[key |-> "name", value |-> Str("al 2")]>> >>

MaxResultPages == 2

\* data.value of the responses: no record, one page, a page more than the
\* one before up to MaxResultPages pages, and records with strings
Responses ==
    {RecordsOfSize(0), NamedRecords}
    \cup {RecordsOfSize((k - 1) * pageSize + 1) : k \in 1..MaxResultPages}

\* the OData-EntityId header of the response to a POST ("" when absent)
EntityIds == {"", "accounts(1)"}

OrgUrls == {"", "https://org.crm.dynamics.com"}

Status(message, type) == [message |-> message, type |-> type]

Init ==
    /\ sqlQueryTextarea \in Statements \cup {"", "   "}
    /\ orgStorage \in OrgUrls
    /\ pc = "idle"
    /\ parsedQuery = None
    /\ request = None
    /\ status = Ready
    /\ disabled = FALSE
    /\ WhereIdle
    /\ ParseIdle
    /\ ApiIdle
    /\ PageIdle
    /\ OtherIdle

\* executeQuery after sqlParser.parse(query) returned or threw r
Parsed(r) ==
    IF ~r.ok
    THEN /\ status' = Status("Error: " \o r.error, "error")
         /\ parsedQuery' = None
         /\ UNCHANGED <<pc, disabled>>
    ELSE /\ status' = Status("Executing query...", "normal")
         /\ parsedQuery' = r.query
         /\ pc' = "awaitOrgUrl"
         /\ disabled' = TRUE

\* a click on Execute: executeQuery up to its first await
ExecuteQuery ==
    /\ pc = "idle"
    /\ ~disabled
    /\ IF trim(sqlQueryTextarea) = ""
       THEN /\ status' = Status("Please enter a SQL query", "error")
            /\ UNCHANGED <<pc, parsedQuery, request, disabled>>
       ELSE /\ Parsed(parse(trim(sqlQueryTextarea)))
            /\ request' = None
    /\ UNCHANGED <<sqlQueryTextarea, orgStorage, whereVars, parseVars, apiVars, pageVars, otherVars>>

\* chrome.storage.local.get(['orgUrl']) resolves: executeQuery up to its fetch
OrgUrlLoaded ==
    /\ pc = "awaitOrgUrl"
    /\ IF orgStorage = ""
       THEN /\ status' = Status("Error: Organization URL not found. "
                                \o "Please navigate to Dynamics CRM first.", "error")
            /\ pc' = "idle"
            /\ disabled' = FALSE
            /\ UNCHANGED request
       ELSE /\ request' = Some(RequestOf(orgStorage, parsedQuery[1]))
            /\ pc' = "awaitFetch"
            /\ UNCHANGED <<status, disabled>>
    /\ UNCHANGED <<sqlQueryTextarea, orgStorage, parsedQuery, whereVars, parseVars, apiVars, pageVars, otherVars>>

\* the fetch settles: with an ok response, with an error status, or rejected
FetchSettled ==
    /\ pc = "awaitFetch"
    /\ \E outcome \in {"ok", "httpError", "rejected"}, value \in Responses,
          entityId \in EntityIds :
          /\ status' = IF outcome = "ok"
                       THEN Status("Query executed successfully", "success")
                       ELSE IF outcome = "httpError"
                       THEN Status("Error: HTTP error", "error")
                       ELSE Status("Error: Failed to fetch", "error")
          /\ IF outcome = "ok"
             THEN processQueryResults(ResultsFor(request[1].method, value, entityId))
             ELSE UNCHANGED pageVars
    /\ pc' = "idle"
    /\ disabled' = FALSE
    /\ UNCHANGED <<sqlQueryTextarea, orgStorage, parsedQuery, request, whereVars, parseVars, apiVars, otherVars>>

Next == ExecuteQuery \/ OrgUrlLoaded \/ FetchSettled

Spec == Init /\ [][Next]_vars

-----------------------------------------------------------------------------
(* The query tool with its result table in use                              *)

\* the statements typed into the query tool while the table is used
PageStatements ==
    { "SELECT revenue, employees FROM account",
      "DELETE FROM account WHERE accountid eq '1'",
      "INSERT INTO account (name) VALUES ('Acme')" }

InitPage ==
    /\ sqlQueryTextarea \in PageStatements
    /\ orgStorage = "https://org.crm.dynamics.com"
    /\ pc = "idle"
    /\ parsedQuery = None
    /\ request = None
    /\ status = Ready
    /\ disabled = FALSE
    /\ WhereIdle
    /\ ParseIdle
    /\ ApiIdle
    /\ PageIdle
    /\ OtherIdle

\* a click on the previous-page button
GoToPreviousPage ==
    /\ currentPage > 1
    /\ currentPage' = currentPage - 1
    /\ UNCHANGED <<currentResult, sortColumn, sortAscending, whereVars, parseVars,
                   toolVars, apiVars, otherVars>>

\* a click on the next-page button
GoToNextPage ==
    /\ currentResult # None
    /\ currentPage < TotalPages(currentResult[1].totalCount)
    /\ currentPage' = currentPage + 1
    /\ UNCHANGED <<currentResult, sortColumn, sortAscending, whereVars, parseVars,
                   toolVars, apiVars, otherVars>>

\* a click on the header of the column with that 0-based index
SortResults(columnIndex) ==
    /\ currentResult # None
    /\ columnIndex \in 0..(Len(currentResult[1].columns) - 1)
    /\ sortColumn' = columnIndex
    /\ sortAscending' = IF sortColumn = columnIndex THEN ~sortAscending ELSE TRUE
    /\ currentResult' =
          Some([currentResult[1] EXCEPT
                   !.rows = SortRows(@, columnIndex + 1, sortAscending')])
    /\ currentPage' = 1
    /\ UNCHANGED <<whereVars, parseVars, toolVars, apiVars, otherVars>>

NextPage ==
    \/ ExecuteQuery
    \/ OrgUrlLoaded
    \/ FetchSettled
    \/ GoToPreviousPage
    \/ GoToNextPage
    \/ \E columnIndex \in 0..1 : SortResults(columnIndex)

SpecPage == InitPage /\ [][NextPage]_vars

-----------------------------------------------------------------------------
(* The handoff of a query from the popup to the query-tool page             *)

\* the texts typed into the popup
PopupTexts ==
    { "SELECT name FROM account", "DELETE FROM account WHERE accountid eq '1'",
      "DROP TABLE account", "  " }

InitHandoff ==
    /\ pendingQuery = None
    /\ popup \in {[text |-> t, pc |-> "idle", status |-> Ready, disabled |-> FALSE,
                    parsedQuery |-> None] : t \in PopupTexts}
    /\ pages = [p \in Pages |-> NoPage]
    /\ executions = <<>>
    /\ calls = <<>>
    /\ WhereIdle
    /\ ParseIdle
    /\ ToolIdle
    /\ ApiIdle
    /\ PageIdle

\* executeQuickQuery after sqlParser.parse(query) returned or threw r: up to
\* the await of chrome.storage.local.set, or through the catch
QuickParsed(r) ==
    IF r.ok
    THEN popup' = [popup EXCEPT !.status = Status("Executing query...", "normal"),
                                !.disabled = TRUE, !.pc = "storing",
                                !.parsedQuery = r.query]
    ELSE popup' = [popup EXCEPT !.status = Status("Error: " \o r.error, "error"),
                                !.disabled = FALSE]

\* a click on the popup's Execute button
ExecuteQuickQuery ==
    /\ popup.pc = "idle"
    /\ ~popup.disabled
    /\ IF trim(popup.text) = ""
       THEN popup' = [popup EXCEPT !.status = Status("Please enter a SQL query", "error")]
       ELSE QuickParsed(parse(trim(popup.text)))
    /\ UNCHANGED <<pendingQuery, pages, executions, calls, whereVars, parseVars,
                   toolVars, apiVars, pageVars>>

\* chrome.storage.local.set({pendingQuery: ...}) is done
PendingStored ==
    /\ popup.pc = "storing"
    /\ pendingQuery' = Some([query |-> trim(popup.text), executing |-> TRUE,
                             parsedQuery |-> popup.parsedQuery[1]])
    /\ popup' = [popup EXCEPT !.pc = "stored"]
    /\ UNCHANGED <<pages, executions, calls, whereVars, parseVars, toolVars,
                   apiVars, pageVars>>

\* a page is constructed: checkPendingQuery asks the storage for pendingQuery
Constructed(p) ==
    pages' = [pages EXCEPT ![p] = [pc |-> "getting", seen |-> None, textarea |-> ""]]

\* executeQuickQuery after the await: chrome.tabs.create opens the query tool
OpenQueryTool ==
    /\ popup.pc = "stored"
    /\ popup' = [popup EXCEPT !.pc = "opened"]
    /\ \E p \in Pages :
          /\ pages[p].pc \in {"closed", "loaded"}
          /\ Constructed(p)
    /\ UNCHANGED <<pendingQuery, executions, calls, whereVars, parseVars, toolVars,
                   apiVars, pageVars>>

\* the user opens or reloads a query-tool page
LoadPage(p) ==
    /\ pages[p].pc \in {"closed", "loaded"}
    /\ Constructed(p)
    /\ UNCHANGED <<pendingQuery, popup, executions, calls, whereVars, parseVars,
                   toolVars, apiVars, pageVars>>

\* the storage answers the get of page p
PendingRead(p) ==
    /\ pages[p].pc = "getting"
    /\ pages' = [pages EXCEPT ![p].pc = "callback", ![p].seen = pendingQuery]
    /\ UNCHANGED <<pendingQuery, popup, executions, calls, whereVars, parseVars,
                   toolVars, apiVars, pageVars>>

\* the callback of checkPendingQuery on page p: with a pending query it sets
\* the textarea, calls executeQuery() and asks the storage to remove the query
PendingChecked(p) ==
    /\ pages[p].pc = "callback"
    /\ IF pages[p].seen # None
       THEN /\ pages' = [pages EXCEPT ![p].pc = "removing",
                                      ![p].textarea = pages[p].seen[1].query]
            /\ executions' =
                  IF pages[p].seen[1].executing
                  THEN Append(executions, [page |-> p, query |-> pages[p].seen[1].query])
                  ELSE executions
       ELSE /\ pages' = [pages EXCEPT ![p].pc = "loaded"]
            /\ UNCHANGED executions
    /\ UNCHANGED <<pendingQuery, popup, calls, whereVars, parseVars, toolVars,
                   apiVars, pageVars>>

\* chrome.storage.local.remove('pendingQuery') of page p is done
PendingRemoved(p) ==
    /\ pages[p].pc = "removing"
    /\ pendingQuery' = None
    /\ pages' = [pages EXCEPT ![p].pc = "loaded"]
    /\ UNCHANGED <<popup, executions, calls, whereVars, parseVars, toolVars,
                   apiVars, pageVars>>

NextHandoff ==
    \/ ExecuteQuickQuery
    \/ PendingStored
    \/ OpenQueryTool
    \/ \E p \in Pages : LoadPage(p)
    \/ \E p \in Pages : PendingRead(p)
    \/ \E p \in Pages : PendingChecked(p)
    \/ \E p \in Pages : PendingRemoved(p)

SpecHandoff == InitHandoff /\ [][NextHandoff]_vars

-----------------------------------------------------------------------------
(* Calls of the sqlParser singleton and of the request builder              *)

MaxCalls == 3

CallTexts ==
    { "SELECT a, b FROM foo WHERE x = 1 ORDER BY y LIMIT 10",
      "UPDATE account SET name = 'X' WHERE accountid eq '{123}'",
      "INSERT INTO account (name) VALUES ('Acme')",
      "SELECT FROM foo", "DROP TABLE foo" }

\* a call whose parse returned or threw r, with the request built from the
\* Query
CallWith(text, r) ==
    [text |-> text, result |-> r,
     request |-> IF r.ok THEN Some(RequestOf("https://org.crm.dynamics.com", r.query[1]))
                 ELSE None]

\* CallOf with a parser that keeps its patterns, with the g flag, in fields:
\* after a call that matched, lastIndex makes the next match fail
CallOfWithLastIndex(earlier, text) ==
    IF earlier # <<>> /\ earlier[Len(earlier)].result.ok
    THEN CallWith(text, Thrown("Invalid SELECT query format"))
    ELSE CallWith(text, parse(text))

\* sqlParser.parse(text) and the request of its Query after the earlier calls:
\* SqlParser and buildQueryUrl have no field and write no variable outside the
\* call, so nothing of the earlier calls is read
CallOf(earlier, text) == CallWith(text, parse(text))

InitCalls ==
    /\ calls = <<>>
    /\ HandoffIdle
    /\ WhereIdle
    /\ ParseIdle
    /\ ToolIdle
    /\ ApiIdle
    /\ PageIdle

ParseAndBuild ==
    /\ Len(calls) < MaxCalls
    /\ \E text \in CallTexts : calls' = Append(calls, CallOf(calls, text))
    /\ UNCHANGED <<handoffVars, whereVars, parseVars, toolVars, apiVars, pageVars>>

NextCalls == ParseAndBuild

SpecCalls == InitCalls /\ [][NextCalls]_vars

-----------------------------------------------------------------------------
(* DynamicsApi.executeQuery                                                *)

MaxRecords == 2

\* the statements whose ParsedQuery is given to DynamicsApi.executeQuery
ApiStatements ==
    { "UPDATE account SET name = 'X' WHERE revenue > 1000",
      "UPDATE contact SET a=1, b = 'q' WHERE name = 'x'",
      "UPDATE account SET name = 'X'",
      "DELETE FROM account WHERE name = 'x'",
      "DELETE FROM contact WHERE accountid eq '{123}'",
      "DELETE FROM contact",
      "SELECT name, accountid FROM account LIMIT 10",
      "INSERT INTO account (name, revenue) VALUES ('Acme', 1000)" }

ApiQueries == {parse(st).query[1] : st \in ApiStatements}

\* the records a response can hold for the entity: two with the entity's id
\* field and one without it
RecordsOf(entity) ==
    { <<[key |-> entity \o "id", value |-> [t |-> "string", v |-> "r1"]],
        [key |-> "name", value |-> [t |-> "string", v |-> "x"]]>>,
      <<[key |-> entity \o "id", value |-> [t |-> "string", v |-> "r2"]]>>,
      <<[key |-> "name", value |-> [t |-> "string", v |-> "x"]]>> }

\* result.value of a response: up to MaxRecords records
Values(entity) == UNION {[1..n -> RecordsOf(entity)] : n \in 0..MaxRecords}

InitApi ==
    /\ clientUrl \in {None, Some("https://org.crm.dynamics.com")}
    /\ apiQuery \in ApiQueries
    /\ apc = "idle"
    /\ records = <<>>
    /\ promises = <<>>
    /\ fetched = <<>>
    /\ apiResult = Pending
    /\ WhereIdle
    /\ ParseIdle
    /\ ToolIdle
    /\ PageIdle
    /\ OtherIdle

\* executeQuery(parsedQuery) up to its first await
ApiExecuteQuery ==
    /\ apc = "idle"
    /\ IF clientUrl = None
       THEN /\ apiResult' = NotInitialized
            /\ apc' = "done"
            /\ UNCHANGED fetched
       ELSE IF Refusal(apiQuery) # ""
       THEN /\ apiResult' = Rejected(Refusal(apiQuery))
            /\ apc' = "done"
            /\ UNCHANGED fetched
       ELSE /\ fetched' = Append(fetched, FirstRequest(clientUrl[1], apiQuery))
            /\ apc' = IF apiQuery.operation = "INSERT" THEN "creating" ELSE "retrieving"
            /\ UNCHANGED apiResult
    /\ UNCHANGED <<clientUrl, apiQuery, records, promises, whereVars, parseVars, toolVars, pageVars, otherVars>>

\* executeUpdate / executeDelete after executeRetrieve returned recs
Retrieved(recs) ==
    IF apiQuery.operation = "SELECT"
    THEN /\ apiResult' = Resolved(recs)
         /\ apc' = "done"
         /\ UNCHANGED <<records, promises, fetched>>
    ELSE IF Len(recs) = 0
    THEN /\ apiResult' = Resolved(<<[affectedRecords |-> 0]>>)
         /\ apc' = "done"
         /\ records' = recs
         /\ UNCHANGED <<promises, fetched>>
    ELSE /\ records' = recs
         /\ fetched' = fetched \o MutationRequests(clientUrl[1], apiQuery, recs)
         /\ promises' = [i \in 1..Len(recs) |-> "pending"]
         /\ apc' = "mutating"
         /\ UNCHANGED apiResult

\* the fetch of executeRetrieve settles
RetrieveSettled ==
    /\ apc = "retrieving"
    /\ \/ \E outcome \in {"httpError", "rejected"} :
             /\ apiResult' = Rejected(FailureOf(outcome))
             /\ apc' = "done"
             /\ UNCHANGED <<records, promises, fetched>>
       \/ \E recs \in Values(apiQuery.entity) : Retrieved(recs)
    /\ UNCHANGED <<clientUrl, apiQuery, whereVars, parseVars, toolVars, pageVars, otherVars>>

\* the fetch of executeCreate settles
CreateSettled ==
    /\ apc = "creating"
    /\ \E outcome \in {"ok", "httpError", "rejected"} :
          apiResult' = IF outcome = "ok"
                       THEN Resolved(<<Created(apiQuery.values[1])>>)
                       ELSE Rejected(FailureOf(outcome))
    /\ apc' = "done"
    /\ UNCHANGED <<clientUrl, apiQuery, records, promises, fetched,
                   whereVars, parseVars, toolVars, pageVars, otherVars>>

\* executeUpdate / executeDelete when the promise of record i settled as ps[i]
Settled(ps, i) ==
    IF apc # "mutating" THEN UNCHANGED <<apiResult, apc>>
    ELSE IF ps[i] = "rejected"
    THEN /\ apiResult' = Rejected("HTTP error")
         /\ apc' = "done"
    ELSE IF AllFulfilled(ps)
    THEN /\ apiResult' = Resolved(<<[affectedRecords |-> Len(records)]>>)
         /\ apc' = "done"
    ELSE UNCHANGED <<apiResult, apc>>

\* the fetch made for record i settles: in any order, also after Promise.all
\* rejected
MutationSettled ==
    /\ apc \in {"mutating", "done"}
    /\ \E i \in 1..Len(promises) :
          /\ promises[i] = "pending"
          /\ \E outcome \in {"fulfilled", "rejected"} :
                /\ promises' = [promises EXCEPT ![i] = outcome]
                /\ Settled(promises', i)
    /\ UNCHANGED <<clientUrl, apiQuery, records, fetched, whereVars, parseVars, toolVars, pageVars, otherVars>>

NextApi == ApiExecuteQuery \/ RetrieveSettled \/ CreateSettled \/ MutationSettled

SpecApi == InitApi /\ [][NextApi]_vars

-----------------------------------------------------------------------------
(* The translation of WHERE clauses: what each condition should become     *)

ODataOperator(op) ==
    CASE op = "=" -> "eq"
      [] op = "<>" -> "ne"
      [] op = ">" -> "gt"
      [] op = "<" -> "lt"
      [] op = ">=" -> "ge"
      [] op = "<=" -> "le"
      [] op = "LIKE" -> "contains"
      [] op = "IS NULL" -> "eq null"
      [] op = "IS NOT NULL" -> "ne null"

ExpectedCond(c, i) ==
    IF c.ops[i] \in UnaryOperators
    THEN LeftOperand(i) \o " " \o ODataOperator(c.ops[i])
    ELSE LeftOperand(i) \o " " \o ODataOperator(c.ops[i]) \o " " \o RightOperand(c, i)

RECURSIVE ExpectedFrom(_, _)
ExpectedFrom(c, i) ==
    IF i = Len(c.ops) THEN ExpectedCond(c, i)
    ELSE ExpectedCond(c, i) \o " " \o toLowerCase(c.conns[i]) \o " "
             \o ExpectedFrom(c, i + 1)

\* the filter in which every operator and keyword of the clause is replaced
\* by its OData token between single spaces, the operands unchanged
Expected(c) == ExpectedFrom(c, 1)

OperatorsOf(c) == {c.ops[i] : i \in 1..Len(c.ops)}

\* C2: in the translation of a clause of comparisons, each >= has become ge,
\* each <= le and each <> ne, and no character of such an operator was
\* translated on its own (no "gt eq", no "lt eq").
MultiCharacterFirst ==
    (/\ wpc = "translated"
     /\ OperatorsOf(clause) \subseteq SymbolOperators
     /\ OperatorsOf(clause) \cap {">=", "<=", "<>"} # {})
        => filter = Expected(clause)

\* C3: a clause of comparisons with =, > or < joined by AND / OR in any
\* letter case is translated to the same comparisons with eq, gt, lt, and,
\* or between single spaces and the operands unchanged.
ComparisonsTranslated ==
    (wpc = "translated" /\ OperatorsOf(clause) \subseteq {"=", ">", "<"})
        => filter = Expected(clause)

\* C4: IS NULL, IS NOT NULL and LIKE become eq null, ne null and contains in
\* any letter case, and the rest of the clause stays separate tokens, also
\* when AND / OR and a further condition follow the predicate.
NullAndLikeTranslated ==
    (/\ wpc = "translated"
     /\ OperatorsOf(clause) \subseteq {"IS NULL", "IS NOT NULL", "LIKE", "="}
     /\ OperatorsOf(clause) \cap {"IS NULL", "IS NOT NULL", "LIKE"} # {})
        => filter = Expected(clause)

-----------------------------------------------------------------------------
(* The requests of the query tool                                          *)

RoundTripStatement == "SELECT a, b FROM foo WHERE x = 1 ORDER BY y LIMIT 10"

RoundTripQuery ==
    [EmptyQuery EXCEPT !.operation = "SELECT", !.entity = "foo",
                       !.fields = Some(<<"a", "b">>), !.filter = Some("x eq 1"),
                       !.orderBy = Some(<<[field |-> "y", direction |-> "asc"]>>),
                       !.limit = Some(10)]

\* C1, as the code has it: the statement parses to fields [a, b], entity foo,
\* filter "x eq 1", order [{y, asc}] and limit 10, and its request is a GET
\* of <base>/api/data/v9.2/foo whose query string holds $select, $filter,
\* $orderby and $top in that order, each name and value form-urlencoded.
RoundTripEncoded ==
    (sqlQueryTextarea = RoundTripStatement /\ request # None) =>
        /\ parsedQuery = Some(RoundTripQuery)
        /\ request[1].method = "GET"
        /\ request[1].body = None
        /\ request[1].url = orgStorage \o "/api/data/v9.2/foo"
               \o "?%24select=a%2Cb&%24filter=x+eq+1&%24orderby=y+asc&%24top=10"

\* the request of C1's statement has been made
RoundTripWitness ==
    /\ sqlQueryTextarea = RoundTripStatement
    /\ orgStorage = "https://org.crm.dynamics.com"
    /\ request # None
    /\ request[1].method = "GET"

\* C1 as stated: the URL of that request is, character for character,
\* <base>/api/data/v9.2/foo?$select=a,b&$filter=x eq 1&$orderby=y asc&$top=10.
RoundTripLiteral ==
    (sqlQueryTextarea = RoundTripStatement /\ request # None) =>
        /\ request[1].method = "GET"
        /\ request[1].url = orgStorage \o "/api/data/v9.2/foo"
               \o "?$select=a,b&$filter=x eq 1&$orderby=y asc&$top=10"

\* C5: an UPDATE or DELETE whose filter holds <word>id eq '<value>' is sent
\* to <base>/api/data/v9.2/<entity>(<id>), <id> being <value> without braces:
\* as a PATCH with the JSON of the values for UPDATE, as a DELETE without a
\* body for DELETE.
DirectIdPath ==
    \A e \in Entities, c \in IdCases :
        /\ (sqlQueryTextarea = UpdateStatement(e, c.where) /\ request # None) =>
              /\ request[1].method = "PATCH"
              /\ request[1].url = orgStorage \o "/api/data/v9.2/" \o e
                                      \o "(" \o c.id \o ")"
              /\ request[1].body = Some("{\"name\":\"X\"}")
        /\ (sqlQueryTextarea = DeleteStatement(e, c.where) /\ request # None) =>
              /\ request[1].method = "DELETE"
              /\ request[1].url = orgStorage \o "/api/data/v9.2/" \o e
                                      \o "(" \o c.id \o ")"
              /\ request[1].body = None

\* C5's example has been sent
DirectIdPathWitness ==
    /\ sqlQueryTextarea = "UPDATE account SET name = 'X' WHERE accountid eq '{123}'"
    /\ request # None
    /\ request[1].method = "PATCH"
    /\ request[1].url = "https://org.crm.dynamics.com/api/data/v9.2/account(123)"

\* C6: for an UPDATE or DELETE whose filter holds no <word>id eq '<value>',
\* the builder flags an ambiguous target: no request is made for it.
AmbiguousTargetFlagged ==
    (\E e \in Entities, w \in OtherWheres :
        sqlQueryTextarea \in {UpdateStatement(e, w), DeleteStatement(e, w)})
        => request = None

\* C7: no PATCH or DELETE request is made for a query whose filter is absent
\* or empty.
MissingFilterRejected ==
    (request # None /\ request[1].method \in {"PATCH", "DELETE"}) =>
        /\ parsedQuery[1].filter # None
        /\ parsedQuery[1].filter[1] # ""

-----------------------------------------------------------------------------
(* The dispatch of parse                                                   *)

Keywords == {"SELECT", "INSERT", "UPDATE", "DELETE"}

\* the leading word of the statement, in upper case
LeadingWord(text) ==
    toUpperCase(SubSeq(trim(text), 1, SkipWord(trim(text), 1) - 1))

\* C10: a statement whose leading word is none of SELECT, INSERT, UPDATE,
\* DELETE (in any letter case) makes parse fail with UnsupportedOperation.
DispatchByKeyword ==
    (ppc = "parsed" /\ LeadingWord(parseInput) \notin Keywords)
        => result = Thrown(UnsupportedOperation)

-----------------------------------------------------------------------------
(* The bulk UPDATE and DELETE of DynamicsApi                               *)

Bulk == apiQuery.operation \in {"UPDATE", "DELETE"}

Verb == IF apiQuery.operation = "UPDATE" THEN "PATCH" ELSE "DELETE"

\* the value of the record's <entity>id field, as text
IdFieldOf(entity, record) ==
    IF \E i \in 1..Len(record) : record[i].key = entity \o "id"
    THEN record[CHOOSE i \in 1..Len(record) : record[i].key = entity \o "id"].value.v
    ELSE "undefined"

\* C8: a bulk UPDATE / DELETE first makes one GET on the entity with the
\* same filter; only after its response it makes one PATCH / DELETE per
\* returned record, to <entity>(<the record's <entity>id>); its result is
\* affectedRecords = the number of returned records, and with no record
\* returned no mutation request is made.
RetrieveThenMutate ==
    Bulk =>
        /\ fetched # <<>> =>
              /\ fetched[1].method = "GET"
              /\ fetched[1].url = clientUrl[1] \o "/api/data/v9.2/" \o apiQuery.entity
                                     \o "?%24filter=" \o FormEncode(apiQuery.filter[1])
        /\ apc = "retrieving" => Len(fetched) = 1
        /\ apc \in {"mutating", "done"} /\ fetched # <<>> =>
              /\ Len(fetched) = 1 + Len(records)
              /\ \A i \in 1..Len(records) :
                    /\ fetched[i + 1].method = Verb
                    /\ fetched[i + 1].url =
                          clientUrl[1] \o "/api/data/v9.2/" \o apiQuery.entity \o "("
                              \o IdFieldOf(apiQuery.entity, records[i]) \o ")"
        /\ apiResult.state = "resolved" =>
              apiResult.data = <<[affectedRecords |-> Len(records)]>>

\* a bulk UPDATE of two records has succeeded
RetrieveThenMutateWitness ==
    /\ apiQuery.operation = "UPDATE"
    /\ Len(records) = 2
    /\ Len(fetched) = 3
    /\ fetched[3].url = "https://org.crm.dynamics.com/api/data/v9.2/account(r2)"
    /\ apiResult = Resolved(<<[affectedRecords |-> 2]>>)

\* C9: a bulk UPDATE / DELETE reports success only when every per-record
\* request succeeded, whatever the order in which they settle; as soon as one
\* has failed the operation has failed, and no further request is made for
\* the mutations already applied.
AllOrNothing ==
    Bulk =>
        /\ apiResult.state = "resolved" =>
              \A i \in 1..Len(promises) : promises[i] = "fulfilled"
        /\ (\E i \in 1..Len(promises) : promises[i] = "rejected") =>
              apiResult.state = "rejected"
        /\ Len(fetched) <= 1 + Len(records)
        /\ \A i \in 2..Len(fetched) : fetched[i].method = Verb

\* one record was changed, the request for another failed
AllOrNothingWitness ==
    /\ Bulk
    /\ \E i, j \in 1..Len(promises) :
          promises[i] = "fulfilled" /\ promises[j] = "rejected"
    /\ apiResult.state = "rejected"
    /\ Len(fetched) = 1 + Len(records)

-----------------------------------------------------------------------------
(* The failures of parse                                                   *)

\* the reason parse gives when the statement does not match the grammar of
\* the operation op
InvalidSyntax(op) == "Invalid " \o op \o " query format"

\* C11: parse returns a Query or fails with UnsupportedOperation or with the
\* InvalidSyntax of one of the four operations; it fails with no other error.
ParseErrorTaxonomy ==
    ppc = "parsed" =>
        \/ result.ok
        \/ result.error = UnsupportedOperation
        \/ \E op \in Keywords : result.error = InvalidSyntax(op)

-----------------------------------------------------------------------------
(* Literal typing                                                          *)

\* the values object that holds the one column name with the typed value
NameIs(type, value) ==
    Some(<<[key |-> "name", value |-> [t |-> type, v |-> value]]>>)

\* C12: a token has the same typed value as an INSERT value and as an UPDATE
\* SET value: the text between the quotes for a quoted token, else the number
\* for a numeric token, else a boolean for true / false and null for null in
\* any letter case, else the token itself; the INSERT of 'Acme', 1000, true
\* yields {name: "Acme", revenue: 1000, active: true}.
LiteralTyping ==
    ppc = "parsed" =>
        /\ \A k \in TypedTokens :
              parseInput \in {InsertOf(k.text), UpdateOf(k.text)} =>
                  /\ result.ok
                  /\ result.query[1].values = NameIs(k.type, k.value)
        /\ parseInput = "INSERT INTO account (name, revenue, active) "
                            \o "VALUES ('Acme', 1000, true)" =>
              /\ result.ok
              /\ result.query[1].values =
                    Some(<<[key |-> "name", value |-> [t |-> "string", v |-> "Acme"]],
                           [key |-> "revenue", value |-> [t |-> "number", v |-> "1000"]],
                           [key |-> "active", value |-> [t |-> "boolean", v |-> "true"]]>>)

\* the token TRUE was typed in an UPDATE
LiteralTypingWitness ==
    /\ ppc = "parsed"
    /\ parseInput = UpdateOf("TRUE")
    /\ result.ok
    /\ result.query[1].values = NameIs("boolean", "true")

-----------------------------------------------------------------------------
(* Assignments, limits, field lists and entity names                        *)

\* C13: a SET assignment splits on its first "=" only: the value is the typed
\* literal of all the trimmed text after it, so a value that holds "="
\* (name = 'a=b') is kept whole.
SplitOnFirstEquals ==
    ppc = "parsed" =>
        /\ \A k \in TypedTokens \cup EqualsTokens :
              parseInput = UpdateOf(k.text) =>
                  /\ result.ok
                  /\ result.query[1].values = NameIs(k.type, k.value)
        /\ parseInput = "UPDATE account SET name = 'a=b'" =>
              /\ result.ok
              /\ result.query[1].values = NameIs("string", "a=b")

\* C14: a SELECT whose LIMIT literal is no non-negative integer makes parse
\* fail, whatever clause stands before the LIMIT, and every limit that parse
\* returns is a non-negative integer.
InvalidLimitRejected ==
    ppc = "parsed" =>
        /\ parseInput \in InvalidLimitStatements => ~result.ok
        /\ (result.ok /\ result.query[1].limit # None) =>
              result.query[1].limit[1] \in Nat

\* C15: the fields of a returned SELECT Query are a non-empty sequence without
\* an empty string, and a statement with a missing field list or an empty
\* list element fails with InvalidSyntax.
FieldsNonEmpty ==
    ppc = "parsed" =>
        /\ (result.ok /\ result.query[1].operation = "SELECT") =>
              /\ result.query[1].fields # None
              /\ result.query[1].fields[1] # <<>>
              /\ \A i \in 1..Len(result.query[1].fields[1]) :
                    result.query[1].fields[1][i] # ""
        /\ parseInput \in {"SELECT FROM foo", "SELECT  FROM foo", "SELECT a,,b FROM foo"} =>
              result = Thrown(InvalidSyntax("SELECT"))

\* text matches [A-Za-z_][A-Za-z0-9_]*
IsIdentifier(text) ==
    /\ text # ""
    /\ Ch(text, 1) \notin Digits
    /\ SkipWord(text, 1) = Len(text) + 1

\* C16: the entity of every returned Query is non-empty and matches
\* [A-Za-z_][A-Za-z0-9_]*; it never starts with a digit.
EntityIsIdentifier ==
    (ppc = "parsed" /\ result.ok) => IsIdentifier(result.query[1].entity)

-----------------------------------------------------------------------------
(* The parameters of a SELECT request                                       *)

\* sub occurs in text
Contains(text, sub) ==
    \E i \in 1..(Len(text) - Len(sub) + 1) : SubSeq(text, i, i + Len(sub) - 1) = sub

\* the query string of url holds a parameter of that (encoded) name
HasParam(url, name) ==
    Contains(url, "?" \o name \o "=") \/ Contains(url, "&" \o name \o "=")

\* the request of a SELECT Query has been built
SelectRequested ==
    /\ request # None
    /\ parsedQuery # None
    /\ parsedQuery[1].operation = "SELECT"

\* C17: the request of a SELECT Query holds $select with the comma-joined
\* field list, and holds no $select when fields is empty or is the single
\* wildcard *: SELECT * FROM foo yields a URL without $select.
SelectListEmitted ==
    SelectRequested =>
        LET fields == parsedQuery[1].fields
        IN  IF fields = None \/ fields[1] = <<>> \/ fields[1] = <<"*">>
            THEN ~HasParam(request[1].url, "%24select")
            ELSE Contains(request[1].url,
                          "?%24select=" \o FormEncode(join(fields[1], ",")))

\* C18: the request of a SELECT Query holds $top=<n> if and only if the Query
\* has the limit n, for every n including 0: LIMIT 0 yields $top=0.
TopIffLimit ==
    SelectRequested =>
        LET limit == parsedQuery[1].limit
        IN  /\ limit = None => ~HasParam(request[1].url, "%24top")
            /\ limit # None =>
                  /\ HasParam(request[1].url, "%24top")
                  /\ endsWith(request[1].url, "%24top=" \o ToString(limit[1]))
            /\ sqlQueryTextarea = "SELECT a FROM foo LIMIT 0" =>
                  request[1].url = orgStorage \o "/api/data/v9.2/foo?%24select=a&%24top=0"

-----------------------------------------------------------------------------
(* The request of a Query, and the optional terminator                      *)

\* C19: the request of a Query is a GET for SELECT, a POST for INSERT, a
\* PATCH for UPDATE and a DELETE for DELETE; it has a body, the JSON of the
\* values, exactly for POST and PATCH; it has the headers Accept:
\* application/json, OData-MaxVersion: 4.0 and OData-Version: 4.0, and the
\* header Content-Type: application/json if and only if it has a body.
RequestShape ==
    (request # None /\ parsedQuery # None) =>
        LET operation == parsedQuery[1].operation
            sent == request[1]
        IN  /\ operation = "SELECT" => sent.method = "GET"
            /\ operation = "INSERT" => sent.method = "POST"
            /\ operation = "UPDATE" => sent.method = "PATCH"
            /\ operation = "DELETE" => sent.method = "DELETE"
            /\ sent.body # None <=> sent.method \in {"POST", "PATCH"}
            /\ sent.body # None =>
                  /\ Len(sent.body[1]) >= 2
                  /\ Ch(sent.body[1], 1) = "{"
                  /\ Ch(sent.body[1], Len(sent.body[1])) = "}"
            /\ sqlQueryTextarea = "INSERT INTO account (name, revenue, active) "
                                      \o "VALUES ('Acme', 1000, true)" =>
                  sent.body = Some("{\"name\":\"Acme\",\"revenue\":1000,\"active\":true}")
            /\ sqlQueryTextarea = "update t set a = null where paid eq 'yes'" =>
                  sent.body = Some("{\"a\":null}")
            /\ {<<"Accept", "application/json">>, <<"OData-MaxVersion", "4.0">>,
                <<"OData-Version", "4.0">>} \subseteq sent.headers
            /\ <<"Content-Type", "application/json">> \in sent.headers
                   <=> sent.body # None
            /\ \A h \in sent.headers : h[1] = "Content-Type" => h[2] = "application/json"

\* a POST with its JSON body and Content-Type has been built
RequestShapeWitness ==
    /\ sqlQueryTextarea = "INSERT INTO account (name, revenue, active) "
                              \o "VALUES ('Acme', 1000, true)"
    /\ request # None
    /\ request[1].method = "POST"
    /\ request[1].body = Some("{\"name\":\"Acme\",\"revenue\":1000,\"active\":true}")
    /\ <<"Content-Type", "application/json">> \in request[1].headers

\* C20: for a statement text that does not end with ";", parse has the same
\* outcome for the text, for the text followed by ";" and for the text with
\* added leading and trailing whitespace, also when the text ends in
\* whitespace.
TerminatorOptional ==
    (ppc = "parsed" /\ ~endsWith(parseInput, ";")) =>
        /\ result = parse(parseInput \o ";")
        /\ result = parse(" \t" \o parseInput \o "  ")

-----------------------------------------------------------------------------
(* Uneven INSERT lists and ORDER BY lists                                   *)

\* C21: an INSERT whose column list and value list differ in length does not
\* fail; values has one key per listed column, the i-th column with the typed
\* i-th value, or with undefined when there is none, and the values beyond
\* the column list are under no key.
UnevenListsPositional ==
    ppc = "parsed" =>
        \A u \in UnevenInserts :
            parseInput = u.text =>
                /\ result.ok
                /\ result.query[1].operation = "INSERT"
                /\ result.query[1].values = Some(u.values)

\* an INSERT with a column that has no value was parsed
UnevenListsWitness ==
    /\ ppc = "parsed"
    /\ parseInput = "INSERT INTO account (a, b, c) VALUES (1, 2)"
    /\ result.ok
    /\ Len(result.query[1].values[1]) = 3
    /\ result.query[1].values[1][3] = [key |-> "c", value |-> Undefined]

\* C22: parse yields one {field, direction} entry per comma-separated element
\* of the ORDER BY list, in order; the direction is descending only when the
\* token after the field is DESC in any letter case, and ascending when the
\* token is absent or anything else.
OrderByEntries ==
    ppc = "parsed" =>
        \A o \in OrderLists :
            /\ parseInput = OrderStatement(o.text) =>
                  /\ result.ok
                  /\ result.query[1].orderBy = Some(o.items)
                  /\ result.query[1].limit = None
            /\ parseInput = OrderStatement(o.text) \o " LIMIT 5" =>
                  /\ result.ok
                  /\ result.query[1].orderBy = Some(o.items)
                  /\ result.query[1].limit = Some(5)

\* a list of three elements was parsed
OrderByWitness ==
    /\ ppc = "parsed"
    /\ parseInput = OrderStatement("y DESC,z asc , w foo")
    /\ result.ok
    /\ result.query[1].orderBy # None
    /\ Len(result.query[1].orderBy[1]) = 3
    /\ result.query[1].orderBy[1][1].direction = "desc"

-----------------------------------------------------------------------------
(* One statement, one record, quoted text                                   *)

\* C24: parse returns a Query only when the statement is the whole trimmed,
\* terminated input: text before the statement or after its first ";" makes
\* parse fail.
WholeInputMatched ==
    ppc = "parsed" =>
        /\ parseInput \in ExtraTextStatements => ~result.ok
        /\ result.ok =>
              /\ LeadingWord(parseInput) \in Keywords
              /\ ~Contains(SubSeq(Terminated(trim(parseInput)), 1,
                                  Len(Terminated(trim(parseInput))) - 1), ";")

\* WHERE clauses that hold <word>id eq '<value>' and are not one equality on
\* an id field
NotOneRecordWheres == {"name = 'x' AND accountid = '{7}'", "paid eq 'yes'"}

\* C25: an UPDATE or DELETE is sent to <entity>(<id>) only when its whole
\* filter is one equality on an id field; a filter with further conditions,
\* or on a field that merely ends in the letters id, is not.
SingleRecordOnlyForIdEquality ==
    \A e \in Entities, w \in NotOneRecordWheres :
        (/\ sqlQueryTextarea \in {UpdateStatement(e, w), DeleteStatement(e, w)}
         /\ request # None)
            => ~Contains(request[1].url, "/" \o e \o "(")

\* C26: a quoted string that holds a comma is one value of its column in an
\* INSERT VALUES list and in an UPDATE SET list, and the columns after it keep
\* their own values.
QuotedCommaKept ==
    ppc = "parsed" =>
        /\ parseInput = "INSERT INTO account (name, revenue) VALUES ('Acme, Inc', 1000)" =>
              /\ result.ok
              /\ result.query[1].values =
                    Some(<<[key |-> "name", value |-> [t |-> "string", v |-> "Acme, Inc"]],
                           [key |-> "revenue", value |-> [t |-> "number", v |-> "1000"]]>>)
        /\ parseInput = "UPDATE account SET name = 'Acme, Inc', revenue = 1000" =>
              /\ result.ok
              /\ result.query[1].values =
                    Some(<<[key |-> "name", value |-> [t |-> "string", v |-> "Acme, Inc"]],
                           [key |-> "revenue", value |-> [t |-> "number", v |-> "1000"]]>>)

\* C27: translateWhereClause changes no character inside a quoted string:
\* each quoted operand of the clause stands in the filter as it was written.
LiteralsUntouched ==
    (wpc = "translated" /\ clause.literals) =>
        \A i \in 1..Len(clause.ops) :
            clause.ops[i] \notin UnaryOperators =>
                Contains(filter, RightOperand(clause, i))

-----------------------------------------------------------------------------
(* The result table                                                         *)

\* C29: whenever a result is displayed, 1 <= currentPage <= the number of
\* pages of the current result, ceil(totalCount / 50): the displayed page is
\* never past the end of a newly loaded, shorter result.
PageWithinResult ==
    currentResult # None =>
        /\ 1 <= currentPage
        /\ currentPage <= TotalPages(currentResult[1].totalCount)

\* the rows stand as the response gave them: no header was clicked since the
\* result of more than one row was loaded
Unsorted ==
    /\ currentResult # None
    /\ Len(currentResult[1].rows) > 1
    /\ \E value \in Responses \ {<<>>} :
          currentResult[1].rows = FormattedResult(value).rows

\* the step is a click on a column header
SortClicked ==
    /\ currentResult # None
    /\ currentResult' # None
    /\ (sortColumn' # sortColumn \/ sortAscending' # sortAscending)

\* C30: the first click on a column header after results are loaded sorts
\* that column ascending, each further click on the same column flips the
\* direction, a click on another column sorts ascending again, and every sort
\* resets the displayed page to 1.
SortByClicks ==
    [][SortClicked =>
          /\ currentPage' = 1
          /\ currentResult'[1].rows =
                SortRows(currentResult[1].rows, sortColumn' + 1, sortAscending')
          /\ Unsorted => sortAscending'
          /\ sortColumn' # sortColumn => sortAscending'
          /\ (sortColumn' = sortColumn /\ ~Unsorted) =>
                sortAscending' = ~sortAscending]_vars

-----------------------------------------------------------------------------
(* Repeated calls, and the pending query                                    *)

PendingExecutedOnce ==
    /\ popup.pc = "opened" => (pendingQuery # None \/ executions # <<>>)
    /\ Len(executions) <= 1

=============================================================================
